---- MODULE Spec2Model ----
(***************************************************************************)
(* Booking allocation core of the Turf backend.                            *)
(*                                                                         *)
(* The state is the Booking, Payment and BookingSlot tables plus, for any  *)
(* request handler in flight, its position, its inputs, the rows it        *)
(* has written but not committed and the row locks it holds.               *)
(* The Slot table of the slots app and the responses of the read handlers *)
(* complete the state.  The slots app's handlers are taken one request at  *)
(* a time, except the bulk patch, which also runs in steps with its row    *)
(* locks; every slot request carries the authenticated user, which no      *)
(* handler reads.                                                          *)
(*                                                                         *)
(* Database semantics assumed (what transaction.atomic and                 *)
(* select_for_update express): a statement sees the committed rows and the *)
(* transaction's own writes; select_for_update locks the rows the          *)
(* statement returns, until commit or rollback; a unique index makes a     *)
(* second insert of the same key wait for the first transaction to end.    *)
(*                                                                         *)
(* A Booking row is modelled with the columns the handlers write           *)
(* (Turf/models.py plus the price keyword of the CRUD and legacy paths).   *)
(* Times of day are minutes since midnight, dates are day numbers.         *)
(* The Turf rows are state too: the venue update writes them.  The grid    *)
(* generators and the pricing function are pure: their specifications      *)
(* draw the arguments in the initial state and record what each call       *)
(* returns.                                                                *)
(***************************************************************************)
EXTENDS Integers, FiniteSets, Sequences, TLC

\* ---------------------------------------------------------------- bounds
NumProcs == 2
MaxRequests == 3

\* ------------------------------------------------------- program constants
HOURLY == "hourly"
FULL_DAY == "full_day"
CONFIRMED == "CONFIRMED"
CANCELLED == "CANCELLED"
SUCCESS == "SUCCESS"
PENDING == "PENDING"
NULL == -1
FullDayAdvanceDays == 60
HourlyAdvanceDays == 7
FullDayHours == 12
\* minutes of timedelta(hours=1), and of a day
Hour == 60
Day == 24 * Hour
\* datetime.time(h, m)
Time(h, m) == h * Hour + m
MinDurationHours == 1
MaxDurationHours == 12

\* ------------------------------------------------------------ environment
Procs == 1..NumProcs
TurfIds == {1, 2}
Today == 1
Dates == {Today}
Refs == {"r1", "r2"}
\* (start_time, duration_hours) pairs a client asks for
ReqSlots == {<<Time(10, 0), 2>>, <<Time(11, 0), 2>>, <<Time(12, 0), 1>>}
\* (booking_type, start_time, end_time) sent to the bookings CRUD endpoint
CreateInputs == {<<HOURLY, Time(10, 0), Time(12, 0)>>,
                 <<HOURLY, Time(11, 0), Time(13, 0)>>,
                 <<HOURLY, Time(12, 0), Time(13, 0)>>,
                 <<HOURLY, Time(5, 0), Time(7, 0)>>, <<FULL_DAY, NULL, NULL>>}

\* request data at and beyond the limits the validation draws: yesterday,
\* today, the last day of each advance window and the day after it; ranges
\* that start before opening, end past midnight, are reversed or too long,
\* or start at a half hour
WideTurfs == {1}
WideDates == {Today - 1, Today, Today + HourlyAdvanceDays, Today + HourlyAdvanceDays + 1,
              Today + FullDayAdvanceDays, Today + FullDayAdvanceDays + 1}
WideRefs == {"r1"}
WideReqSlots == {<<Time(10, 0), 2>>, <<Time(22, 0), 3>>, <<Time(5, 0), 1>>,
                 <<Time(10, 0), 13>>, <<Time(10, 30), 2>>}
WideCreateInputs == {<<HOURLY, Time(10, 0), Time(12, 0)>>,
                     <<HOURLY, Time(12, 0), Time(10, 0)>>,
                     <<HOURLY, Time(5, 0), Time(7, 0)>>, <<FULL_DAY, NULL, NULL>>}

\* request data of the slots app
SlotStatus_CHOICES == {"AVAILABLE", "BOOKED", "MAINTENANCE", "BLOCKED", "TOURNAMENT"}
SlotTurfs == {1}
SlotDates == {Today}
\* (start_time, end_time) of the slots a venue owner submits: custom widths,
\* two of them with one start, one reversed
SlotIntervals == {<<Time(10, 0), Time(12, 0)>>, <<Time(10, 0), Time(11, 0)>>,
                  <<Time(11, 0), Time(13, 0)>>}
SlotStatusInputs == {"AVAILABLE", "BOOKED", "SOLD"}
\* the partial data of a single update, the `data` of a bulk patch
SlotPatches == {[status |-> "BOOKED"], [status |-> "MAINTENANCE"],
                [start_time |-> Time(11, 0), end_time |-> Time(12, 0)]}
BulkPatchData == {[status |-> "BOOKED"], [price |-> 150], [id |-> 9]}

\* slots of a slots_booked payload: 12-hour clock times (hour, minute, AM/PM)
\* and a price
SlotA == [from_time |-> <<10, 0, "AM">>, to_time |-> <<12, 0, "PM">>, price |-> 200]
SlotB == [from_time |-> <<12, 0, "PM">>, to_time |-> <<1, 0, "PM">>, price |-> 100]
SlotPayloads == {<<>>, <<SlotA>>, <<SlotB>>, <<SlotA, SlotB>>}

\* the MaintenanceBlock table: no handler writes it, its rows are given
MaintenanceBlocks ==
    {[turf |-> 1, date |-> Today, start_time |-> Time(10, 0), end_time |-> Time(12, 0),
      reason |-> "resurfacing"]}

\* Turf rows: operating hours, base price, platform commission
TurfRow(t) == [id |-> t, owner |-> t, opening_time |-> Time(6, 0),
               closing_time |-> Time(23, 0), price |-> 100 * t,
               platform_fee_percent |-> 5]
\* the authenticated users (request.user): user t owns venue t
Users == TurfIds

VARIABLES
    bookings,   \* committed Booking rows
    payments,   \* committed Payment rows
    bookingSlots, \* committed BookingSlot rows
    nextId,     \* next value of the Booking id sequence
    pc,         \* per worker: position in the handler it runs, or "idle"
    req,        \* per worker: the request it serves
    tx,         \* per worker: uncommitted rows, row locks, loaded instance
    pre,        \* per worker: the committed tables when its request arrived
    last,       \* the request that completed last, with its response, the
                \* committed tables before it arrived and after it returned,
                \* and the ids of the Booking rows its return committed
    nreq,       \* number of requests that have arrived
    slotRows,   \* committed Slot rows of the slots app
    nextSlotId, \* next value of the Slot id sequence
    lastSlot,   \* the slot-management request that completed last, with its
                \* response status and the Slot table before and after it
    lastRead,   \* the read request that completed last, with its response
    calc,       \* a call of the grid generators or of the pricing function:
                \* its arguments and what each call made so far returned
    turfRows    \* the Turf rows, by id

vars == <<bookings, payments, bookingSlots, nextId, pc, req, tx, pre, last, nreq,
          slotRows, nextSlotId, lastSlot, lastRead, calc, turfRows>>

\* Turf.objects.get(id=t)
Turf(t) == turfRows[t]

\* what the handlers of the slots app and the read handlers own
slotVars == <<slotRows, nextSlotId, lastSlot, lastRead>>

\* what the calls of the pure functions own
pureVars == <<calc>>

\* what the venue update owns
turfVars == <<turfRows>>

NoRow == [id |-> 0]
NoReq == [op |-> "none", turf |-> 0, booking_date |-> 0, booking_type |-> "",
          start_time |-> NULL, end_time |-> NULL, duration_hours |-> NULL,
          transaction_ref |-> "", id |-> 0, slots_booked |-> <<>>]
NoResp == [status |-> 0, booking_id |-> 0, payment_status |-> "", amount |-> 0,
           message |-> ""]
NoPayment == [booking |-> 0, transaction_ref |-> "", amount_paid |-> 0,
              currency |-> "", status |-> ""]
NoTx == [booking |-> NoRow, payment |-> NoPayment, locks |-> {}, instance |-> NoRow,
         slots |-> {}, slot_locks |-> {}, i |-> 0, rows |-> {}, row_locks |-> {}]
NoPre == [bookings |-> {}, payments |-> {}, slots |-> {}]
NoLast == [req |-> NoReq, resp |-> NoResp, pre |-> NoPre, post |-> NoPre,
           created |-> {}]

Response(st, bid, ps, amt, msg) ==
    [status |-> st, booking_id |-> bid, payment_status |-> ps, amount |-> amt,
     message |-> msg]

NoLastSlot == [op |-> "none", req |-> <<>>, status |-> 0, pre |-> {}, post |-> {},
               user |-> 0]
NoLastRead == [op |-> "none", turf |-> 0, date |-> 0, status |-> 0,
               booked_slots |-> <<>>, blocked_slots |-> <<>>, slots |-> <<>>,
               pre |-> {}]
NoCalc == [fn |-> "none", args |-> <<>>, hours |-> <<>>, ranges |-> <<>>,
           prices |-> <<>>]

\* empty tables, idle workers, no request served
Idle ==
    /\ slotRows = {}
    /\ nextSlotId = 1
    /\ lastSlot = NoLastSlot
    /\ lastRead = NoLastRead
    /\ bookings = {}
    /\ payments = {}
    /\ bookingSlots = {}
    /\ nextId = 1
    /\ pc = [p \in Procs |-> "idle"]
    /\ req = [p \in Procs |-> NoReq]
    /\ tx = [p \in Procs |-> NoTx]
    /\ pre = [p \in Procs |-> NoPre]
    /\ last = NoLast
    /\ nreq = 0
    /\ turfRows = [t \in TurfIds |-> TurfRow(t)]

Init == Idle /\ calc = NoCalc

\* ---------------------------------------------------------------- helpers
\* datetime.combine(date, start) + timedelta(hours=duration)).time()
EndTime(start, duration) == (start + duration * Hour) % Day

\* rows locked by a transaction other than p's
LockedByOther(p) == UNION {tx[q].locks : q \in Procs \ {p}}

\* Booking.objects.filter(turf=, booking_date=, status=CONFIRMED)
ConfirmedOn(bs, t, d) ==
    {b \in bs : b.turf = t /\ b.booking_date = d /\ b.status = CONFIRMED}

\* .filter(booking_type=HOURLY, start_time__lt=end, end_time__gt=start)
HourlyOverlap(bs, start, end) ==
    {b \in bs : b.booking_type = HOURLY /\ b.start_time < end /\ b.end_time > start}

\* .filter(booking_type=HOURLY)
HourlyOf(bs) == {b \in bs : b.booking_type = HOURLY}

\* .filter(booking_type=FULL_DAY)
FullDayOf(bs) == {b \in bs : b.booking_type = FULL_DAY}

Tables(bs, ps, sl) == [bookings |-> bs, payments |-> ps, slots |-> sl]

\* a request arrives at an idle worker
Arrive(p) ==
    /\ pc[p] = "idle"
    /\ nreq < MaxRequests
    /\ nreq' = nreq + 1

\* the handler of request r goes on at step `next` with transaction state t
Goto(p, next, r, t) ==
    /\ pc' = [pc EXCEPT ![p] = next]
    /\ req' = [req EXCEPT ![p] = r]
    /\ tx' = [tx EXCEPT ![p] = t]
    /\ pre' = [pre EXCEPT ![p] =
                  IF pc[p] = "idle" THEN Tables(bookings, payments, bookingSlots)
                  ELSE @]
    /\ UNCHANGED last
    /\ UNCHANGED slotVars
    /\ UNCHANGED pureVars
    /\ UNCHANGED turfVars

\* the handler of request r returns response rs; bs, ps and sl are the
\* committed tables once its transaction has ended; the worker is idle again
ReturnAll(p, r, rs, bs, ps, sl) ==
    /\ bookings' = bs
    /\ payments' = ps
    /\ bookingSlots' = sl
    /\ pc' = [pc EXCEPT ![p] = "idle"]
    /\ req' = [req EXCEPT ![p] = NoReq]
    /\ tx' = [tx EXCEPT ![p] = NoTx]
    /\ pre' = [pre EXCEPT ![p] = NoPre]
    /\ last' = [req |-> r, resp |-> rs,
                pre |-> IF pc[p] = "idle"
                        THEN Tables(bookings, payments, bookingSlots)
                        ELSE pre[p],
                post |-> Tables(bs, ps, sl),
                created |-> {b.id : b \in bs} \ {b.id : b \in bookings}]
    /\ UNCHANGED slotVars
    /\ UNCHANGED pureVars
    /\ UNCHANGED turfVars

\* a return of a handler that writes no BookingSlot row
Return(p, r, rs, bs, ps) == ReturnAll(p, r, rs, bs, ps, bookingSlots)

\* queryset.exists() on a select_for_update queryset: SELECT .. LIMIT 1 FOR
\* UPDATE locks one returned row; the statement waits while that row is locked
\* by another transaction.  `found` and `empty` name the handler's next steps.
LockingExists(p, rows, found, empty) ==
    /\ IF rows = {}
       THEN Goto(p, empty, req[p], tx[p])
       ELSE \E b \in rows :
               /\ b.id \notin LockedByOther(p)
               /\ Goto(p, found, req[p], [tx[p] EXCEPT !.locks = @ \cup {b.id}])
    /\ UNCHANGED <<bookings, payments, bookingSlots, nextId, nreq>>

\* ------------------------------------------------- bookings CRUD: create
\* BookingSerializer.validate: "" when the data is accepted, else the error
BookingSerializer_validate(data) ==
    LET days_ahead == data.booking_date - Today
        turf == Turf(data.turf)
    IN  IF data.booking_date < Today THEN "Cannot book past dates"
        ELSE IF data.booking_type = FULL_DAY
        THEN IF days_ahead > FullDayAdvanceDays
             THEN "Full-day booking allowed only up to 2 months in advance"
             ELSE ""
        ELSE IF days_ahead > HourlyAdvanceDays
             THEN "Hourly booking allowed only up to 7 days in advance"
        ELSE IF data.start_time = NULL \/ data.end_time = NULL
             THEN "Start and end time required"
        ELSE IF data.start_time >= data.end_time THEN "Invalid time range"
        ELSE IF data.start_time < turf.opening_time
                \/ data.end_time > turf.closing_time
             THEN "Outside operating hours"
        ELSE ""

\* the price BookingSerializer.create puts into validated_data
CreatePrice(data) ==
    IF data.booking_type = FULL_DAY
    THEN Turf(data.turf).price * FullDayHours
    ELSE ((data.end_time - data.start_time) * Turf(data.turf).price) \div Hour

\* the row super().create(validated_data) inserts (status defaults to CONFIRMED)
CreateRow(id, data) ==
    [id |-> id, turf |-> data.turf, booking_type |-> data.booking_type,
     booking_date |-> data.booking_date, start_time |-> data.start_time,
     end_time |-> data.end_time, duration_hours |-> NULL, base_amount |-> NULL,
     platform_fee |-> NULL, total_amount |-> NULL, price |-> CreatePrice(data),
     status |-> CONFIRMED]

CreateRequest(t, d, ty, s, e) ==
    [op |-> "create", turf |-> t, booking_date |-> d, booking_type |-> ty,
     start_time |-> s, end_time |-> e, duration_hours |-> NULL,
     transaction_ref |-> "", id |-> 0, slots_booked |-> <<>>]

\* POST turfs/bookings/: is_valid() runs validate(), then create() is entered;
\* the request data is drawn from the given sets
BookingViewSet_createFrom(p, turfs, dates, inputs) ==
    \E t \in turfs, d \in dates, in \in inputs :
        LET r == CreateRequest(t, d, in[1], in[2], in[3])
            err == BookingSerializer_validate(r)
        IN  /\ Arrive(p)
            /\ UNCHANGED nextId
            /\ IF err # ""
               THEN Return(p, r, Response(400, 0, "", 0, err), bookings, payments)
               ELSE /\ Goto(p, IF r.booking_type = FULL_DAY THEN "create_full_day"
                               ELSE "create_hourly_fd", r, NoTx)
                    /\ UNCHANGED <<bookings, payments, bookingSlots>>

BookingViewSet_create(p) == BookingViewSet_createFrom(p, TurfIds, Dates, CreateInputs)

\* create(), FULL_DAY branch: existing.exists()
Create_FullDayCheck(p) ==
    /\ pc[p] = "create_full_day"
    /\ LockingExists(p, ConfirmedOn(bookings, req[p].turf, req[p].booking_date),
                     "create_reject_booked", "create_save")

\* create(), HOURLY branch: existing.filter(booking_type=FULL_DAY).exists()
Create_HourlyFullDayCheck(p) ==
    /\ pc[p] = "create_hourly_fd"
    /\ LockingExists(p,
          FullDayOf(ConfirmedOn(bookings, req[p].turf, req[p].booking_date)),
          "create_reject_booked", "create_hourly_overlap")

\* create(), HOURLY branch: the overlapping time check
Create_HourlyOverlapCheck(p) ==
    /\ pc[p] = "create_hourly_overlap"
    /\ LockingExists(p,
          HourlyOverlap(ConfirmedOn(bookings, req[p].turf, req[p].booking_date),
                        req[p].start_time, req[p].end_time),
          "create_reject_slot", "create_save")

\* raise serializers.ValidationError: the atomic block rolls back
Create_Reject(p) ==
    /\ pc[p] \in {"create_reject_booked", "create_reject_slot"}
    /\ UNCHANGED <<nextId, nreq>>
    /\ Return(p, req[p],
              Response(400, 0, "", 0,
                       IF pc[p] = "create_reject_booked" THEN "Turf already booked"
                       ELSE "Time slot already booked"),
              bookings, payments)

\* super().create(validated_data) and the commit of the atomic block
Create_Save(p) ==
    /\ pc[p] = "create_save"
    /\ nextId' = nextId + 1
    /\ UNCHANGED nreq
    /\ Return(p, req[p], Response(201, nextId, "", 0, ""),
              bookings \cup {CreateRow(nextId, req[p])}, payments)

\* ------------------------------------------------------ pay-and-confirm
PayRequest(t, d, s, dur, ref) ==
    [op |-> "pay", turf |-> t, booking_date |-> d, booking_type |-> HOURLY,
     start_time |-> s, end_time |-> EndTime(s, dur), duration_hours |-> dur,
     transaction_ref |-> ref, id |-> 0, slots_booked |-> <<>>]

\* base_amount, platform_fee, total_amount of BookingPayView.post
BaseAmount(r) == r.duration_hours * Turf(r.turf).price
PlatformFee(r) == (BaseAmount(r) * Turf(r.turf).platform_fee_percent) \div 100
TotalAmount(r) == BaseAmount(r) + PlatformFee(r)

\* the row Booking.objects.create(...) of BookingPayView.post inserts
PayRow(id, r) ==
    [id |-> id, turf |-> r.turf, booking_type |-> HOURLY,
     booking_date |-> r.booking_date, start_time |-> r.start_time,
     end_time |-> r.end_time, duration_hours |-> r.duration_hours,
     base_amount |-> BaseAmount(r), platform_fee |-> PlatformFee(r),
     total_amount |-> TotalAmount(r), price |-> NULL, status |-> CONFIRMED]

\* the row Payment.objects.create(...) inserts
PaymentRow(bid, r) ==
    [booking |-> bid, transaction_ref |-> r.transaction_ref,
     amount_paid |-> TotalAmount(r), currency |-> "INR", status |-> SUCCESS]

\* the rows the conflict query of BookingPayView.post returns
PayConflicts(bs, r) ==
    HourlyOverlap(ConfirmedOn(bs, r.turf, r.booking_date), r.start_time, r.end_time)

\* Payment.objects.filter(transaction_ref=ref)
PaymentsWithRef(ps, ref) == {pm \in ps : pm.transaction_ref = ref}

\* what BookingPaySerializer checks of booking_details: DateField, TimeField,
\* IntegerField(min_value=1, max_value=12)
BookingDetailsSerializer_valid(start, duration) ==
    /\ start \in 0..(Day - 1)
    /\ duration >= MinDurationHours
    /\ duration <= MaxDurationHours

\* POST bookings/pay/: the serializer accepts, end time and amounts are
\* computed; the request data is drawn from the given sets
BookingPayView_postFrom(p, turfs, dates, reqslots, refs) ==
    \E t \in turfs, d \in dates, sd \in reqslots, ref \in refs :
        /\ Arrive(p)
        /\ UNCHANGED nextId
        /\ IF ~BookingDetailsSerializer_valid(sd[1], sd[2])
           THEN Return(p, PayRequest(t, d, sd[1], sd[2], ref),
                       Response(400, 0, "", 0, "Invalid booking_details"),
                       bookings, payments)
           ELSE /\ Goto(p, "pay_check", PayRequest(t, d, sd[1], sd[2], ref), NoTx)
                /\ UNCHANGED <<bookings, payments, bookingSlots>>

BookingPayView_post(p) == BookingPayView_postFrom(p, TurfIds, Dates, ReqSlots, Refs)

\* conflicts.exists() on the select_for_update queryset
Pay_ConflictCheck(p) ==
    /\ pc[p] = "pay_check"
    /\ LockingExists(p, PayConflicts(bookings, req[p]),
                     "pay_conflict", "pay_create_booking")

\* return 409 from inside the atomic block: nothing was written
Pay_Conflict(p) ==
    /\ pc[p] = "pay_conflict"
    /\ UNCHANGED <<nextId, nreq>>
    /\ Return(p, req[p], Response(409, 0, "", 0, "Slot no longer available"),
              bookings, payments)

\* Booking.objects.create(...): written, not yet committed
Pay_CreateBooking(p) ==
    /\ pc[p] = "pay_create_booking"
    /\ nextId' = nextId + 1
    /\ Goto(p, "pay_lookup", req[p],
            [tx[p] EXCEPT !.booking = PayRow(nextId, req[p])])
    /\ UNCHANGED <<bookings, payments, bookingSlots, nreq>>

\* existing_payment = Payment.objects.filter(transaction_ref=..).first();
\* when found the handler returns from inside the atomic block, which commits
Pay_Lookup(p) ==
    /\ pc[p] = "pay_lookup"
    /\ UNCHANGED <<nextId, nreq>>
    /\ LET existing == PaymentsWithRef(payments, req[p].transaction_ref)
       IN  IF existing # {}
           THEN \E pm \in existing :
                   Return(p, req[p],
                          Response(200, pm.booking, pm.status, pm.amount_paid,
                                   "Payment already processed"),
                          bookings \cup {tx[p].booking}, payments)
           ELSE /\ Goto(p, "pay_insert", req[p], tx[p])
                /\ UNCHANGED <<bookings, payments, bookingSlots>>

\* Payment.objects.create(...).  The unique index on transaction_ref makes the
\* insert wait for an uncommitted insert of the same key.  When the key is
\* already committed the insert raises IntegrityError, which the handler
\* catches inside the atomic block; the commit that follows keeps the
\* transaction's earlier writes or discards them, depending on whether the
\* database aborts a transaction on a failed statement.
Pay_InsertPayment(p) ==
    /\ pc[p] = "pay_insert"
    /\ \A q \in Procs \ {p} :
          tx[q].payment.transaction_ref # req[p].transaction_ref
    /\ UNCHANGED <<nextId, nreq>>
    /\ IF PaymentsWithRef(payments, req[p].transaction_ref) # {}
       THEN \E aborted \in BOOLEAN :
               Return(p, req[p],
                      Response(200, 0, "", 0, "Payment already recorded"),
                      IF aborted THEN bookings ELSE bookings \cup {tx[p].booking},
                      payments)
       ELSE /\ Goto(p, "pay_commit", req[p],
                    [tx[p] EXCEPT !.payment = PaymentRow(tx[p].booking.id, req[p])])
            /\ UNCHANGED <<bookings, payments, bookingSlots>>

\* the atomic block ends: booking and payment are committed together
Pay_Commit(p) ==
    /\ pc[p] = "pay_commit"
    /\ UNCHANGED <<nextId, nreq>>
    /\ Return(p, req[p],
              Response(200, tx[p].booking.id, "PAID", TotalAmount(req[p]),
                       "Booking confirmed successfully"),
              bookings \cup {tx[p].booking}, payments \cup {tx[p].payment})

\* --------------------------------------------------------- legacy confirm
\* the fields BookingConfirmSerializer declares: validated_data has only these
BookingConfirmSerializer_fields ==
    {"turf_id", "date", "slots", "payment_method", "transaction_id"}

\* the booking a client of the legacy endpoint asks for
ConfirmRequest(t, d, s, dur) ==
    [op |-> "confirm", turf |-> t, booking_date |-> d, booking_type |-> HOURLY,
     start_time |-> s, end_time |-> EndTime(s, dur), duration_hours |-> dur,
     transaction_ref |-> "", id |-> 0, slots_booked |-> <<>>]

\* POST bookings/confirm/: the view reads validated_data["start_time"] and
\* validated_data["duration_hours"], which the serializer does not declare:
\* KeyError before the atomic block is entered
BookingConfirmView_postFrom(p, turfs, dates, reqslots) ==
    \E t \in turfs, d \in dates, sd \in reqslots :
        /\ Arrive(p)
        /\ {"start_time", "duration_hours"} \cap BookingConfirmSerializer_fields = {}
        /\ UNCHANGED nextId
        /\ Return(p, ConfirmRequest(t, d, sd[1], sd[2]), Response(500, 0, "", 0, "KeyError"),
                  bookings, payments)

BookingConfirmView_post(p) == BookingConfirmView_postFrom(p, TurfIds, Dates, ReqSlots)

\* ------------------------------------------------ bookings CRUD: destroy
DestroyRequest(id) ==
    [op |-> "destroy", turf |-> 0, booking_date |-> 0, booking_type |-> "",
     start_time |-> NULL, end_time |-> NULL, duration_hours |-> NULL,
     transaction_ref |-> "", id |-> id, slots_booked |-> <<>>]

\* DELETE turfs/bookings/<id>/: get_object() loads the instance or raises 404
BookingViewSet_destroy(p) ==
    \E id \in 1..nextId :
        LET found == {b \in bookings : b.id = id}
        IN  /\ Arrive(p)
            /\ UNCHANGED nextId
            /\ IF found = {}
               THEN Return(p, DestroyRequest(id),
                           Response(404, 0, "", 0, "Not found"), bookings, payments)
               ELSE /\ \E b \in found :
                          Goto(p, "destroy_save", DestroyRequest(id),
                               [NoTx EXCEPT !.instance = b])
                    /\ UNCHANGED <<bookings, payments, bookingSlots>>

\* the row instance.save() writes in perform_destroy
perform_destroy(instance) == [instance EXCEPT !.status = CANCELLED]

\* ModelViewSet's own perform_destroy: instance.delete()
Destroy_Save_delete(p) ==
    /\ pc[p] = "destroy_save"
    /\ tx[p].instance.id \notin LockedByOther(p)
    /\ UNCHANGED <<nextId, nreq>>
    /\ Return(p, req[p], Response(204, tx[p].instance.id, "", 0, ""),
              {b \in bookings : b.id # tx[p].instance.id},
              {pm \in payments : pm.booking # tx[p].instance.id})

\* perform_destroy: instance.status = CANCELLED; instance.save() writes every
\* column of the loaded instance; the UPDATE waits for a row lock
Destroy_Save(p) ==
    /\ pc[p] = "destroy_save"
    /\ tx[p].instance.id \notin LockedByOther(p)
    /\ UNCHANGED <<nextId, nreq>>
    /\ Return(p, req[p], Response(204, tx[p].instance.id, "", 0, ""),
              {b \in bookings : b.id # tx[p].instance.id}
                  \cup {perform_destroy(tx[p].instance)},
              payments)

\* ------------------------------------------------ slot-based booking flow
\* datetime.strptime(text, "%I:%M %p").time()
ParseTime12(t) == Time((t[1] % 12) + (IF t[3] = "PM" THEN 12 ELSE 0), t[2])

RECURSIVE SumPrices(_)
SumPrices(payload) ==
    IF payload = <<>> THEN 0 ELSE Head(payload).price + SumPrices(Tail(payload))

\* the request data of BookingCreateSerializer; price_breakdown.total_amount
\* is what the client sends, here the sum of the slot prices
SlotFlowRequest(t, d, payload) ==
    [op |-> "slotflow", turf |-> t, booking_date |-> d, booking_type |-> HOURLY,
     start_time |-> NULL, end_time |-> NULL, duration_hours |-> NULL,
     transaction_ref |-> "", id |-> 0, slots_booked |-> payload]

\* the parent row Booking.objects.create(...) of BookingCreateSerializer.create
SlotFlowRow(id, r) ==
    [id |-> id, turf |-> r.turf, booking_type |-> HOURLY,
     booking_date |-> r.booking_date, start_time |-> NULL, end_time |-> NULL,
     duration_hours |-> NULL, base_amount |-> SumPrices(r.slots_booked),
     platform_fee |-> 0, total_amount |-> SumPrices(r.slots_booked),
     price |-> NULL, status |-> PENDING]

\* the row BookingSlot.objects.create(...) inserts for one slot of the payload
BookingSlotRow(bid, r, slot) ==
    [booking |-> bid, turf |-> r.turf, booking_date |-> r.booking_date,
     start_time |-> ParseTime12(slot.from_time),
     end_time |-> ParseTime12(slot.to_time),
     price |-> slot.price, status |-> PENDING]

\* BookingSlot.objects.filter(turf=, booking_date=, start_time=, end_time=)
SameSlotRows(rows, r, slot) ==
    {x \in rows : /\ x.turf = r.turf
                  /\ x.booking_date = r.booking_date
                  /\ x.start_time = ParseTime12(slot.from_time)
                  /\ x.end_time = ParseTime12(slot.to_time)}

SlotsLockedByOther(p) == UNION {tx[q].slot_locks : q \in Procs \ {p}}

\* BookingCreateSerializer: is_valid() runs validate(), then save() enters create()
BookingCreateSerializer_saveFrom(p, turfs, dates, payloads) ==
    \E t \in turfs, d \in dates, payload \in payloads :
        LET r == SlotFlowRequest(t, d, payload)
        IN  /\ Arrive(p)
            /\ UNCHANGED nextId
            /\ IF payload = <<>>
               THEN Return(p, r, Response(400, 0, "", 0, "At least one slot required"),
                           bookings, payments)
               ELSE /\ Goto(p, "slotflow_create_booking", r, NoTx)
                    /\ UNCHANGED <<bookings, payments, bookingSlots>>

BookingCreateSerializer_save(p) ==
    BookingCreateSerializer_saveFrom(p, TurfIds, Dates, SlotPayloads)

\* create(): the parent Booking is written first, status PENDING
SlotFlow_CreateBooking(p) ==
    /\ pc[p] = "slotflow_create_booking"
    /\ nextId' = nextId + 1
    /\ Goto(p, "slotflow_check", req[p],
            [tx[p] EXCEPT !.booking = SlotFlowRow(nextId, req[p]), !.i = 1])
    /\ UNCHANGED <<bookings, payments, bookingSlots, nreq>>

\* create(), loop body: the select_for_update exists() on the slot's exact
\* start and end; the transaction sees its own uncommitted slots too
SlotFlow_Check(p) ==
    /\ pc[p] = "slotflow_check"
    /\ LET slot == req[p].slots_booked[tx[p].i]
           committed == SameSlotRows(bookingSlots, req[p], slot)
           own == SameSlotRows(tx[p].slots, req[p], slot)
       IN  IF committed = {} /\ own = {}
           THEN Goto(p, "slotflow_create_slot", req[p], tx[p])
           ELSE IF own # {}
           THEN Goto(p, "slotflow_reject", req[p], tx[p])
           ELSE \E x \in committed :
                   /\ x \notin SlotsLockedByOther(p)
                   /\ Goto(p, "slotflow_reject", req[p],
                           [tx[p] EXCEPT !.slot_locks = @ \cup {x}])
    /\ UNCHANGED <<bookings, payments, bookingSlots, nextId, nreq>>

\* create(), loop body: BookingSlot.objects.create(...), then the next slot
SlotFlow_CreateSlot(p) ==
    /\ pc[p] = "slotflow_create_slot"
    /\ LET slot == req[p].slots_booked[tx[p].i]
       IN  Goto(p, IF tx[p].i = Len(req[p].slots_booked) THEN "slotflow_commit"
                   ELSE "slotflow_check",
                req[p],
                [tx[p] EXCEPT !.slots = @ \cup {BookingSlotRow(tx[p].booking.id,
                                                               req[p], slot)},
                              !.i = @ + 1])
    /\ UNCHANGED <<bookings, payments, bookingSlots, nextId, nreq>>

\* create() without transaction.atomic: the rows written before the
\* ValidationError stay
SlotFlow_Reject_commit(p) ==
    /\ pc[p] = "slotflow_reject"
    /\ UNCHANGED <<nextId, nreq>>
    /\ ReturnAll(p, req[p], Response(400, 0, "", 0, "Slot already booked"),
                 bookings \cup {tx[p].booking}, payments,
                 bookingSlots \cup tx[p].slots)

\* raise serializers.ValidationError: transaction.atomic rolls everything back
SlotFlow_Reject(p) ==
    /\ pc[p] = "slotflow_reject"
    /\ UNCHANGED <<nextId, nreq>>
    /\ Return(p, req[p], Response(400, 0, "", 0, "Slot already booked"),
              bookings, payments)

\* create() returns the booking: parent row and slot rows are committed
SlotFlow_Commit(p) ==
    /\ pc[p] = "slotflow_commit"
    /\ UNCHANGED <<nextId, nreq>>
    /\ ReturnAll(p, req[p], Response(201, tx[p].booking.id, "", 0, ""),
                 bookings \cup {tx[p].booking}, payments,
                 bookingSlots \cup tx[p].slots)

\* ---------------------------------------------------------- specification
\* the steps of the paths that confirm a booking, and of the cancellation
Step(p) ==
    \/ Create_FullDayCheck(p)
    \/ Create_HourlyFullDayCheck(p)
    \/ Create_HourlyOverlapCheck(p)
    \/ Create_Reject(p)
    \/ Create_Save(p)
    \/ Pay_ConflictCheck(p)
    \/ Pay_Conflict(p)
    \/ Pay_CreateBooking(p)
    \/ Pay_Lookup(p)
    \/ Pay_InsertPayment(p)
    \/ Pay_Commit(p)
    \/ Destroy_Save(p)

Next ==
    \E p \in Procs :
        \/ BookingViewSet_create(p)
        \/ BookingPayView_post(p)
        \/ BookingConfirmView_post(p)
        \/ BookingViewSet_destroy(p)
        \/ Step(p)

\* concurrent requests on the paths that confirm a booking, and cancellations
Spec == Init /\ [][Next]_vars

\* ------------------------------------------------------- availability read
\* strftime("%I:%M %p"), as (hour of the 12-hour clock, minute, AM/PM)
Format12(t) ==
    LET h == t \div Hour
    IN  <<IF h % 12 = 0 THEN 12 ELSE h % 12, t % Hour, IF h < 12 THEN "AM" ELSE "PM">>

\* sorted(set of times), as a sequence
RECURSIVE Sorted(_)
Sorted(S) ==
    IF S = {} THEN <<>>
    ELSE LET least == CHOOSE x \in S : \A y \in S : x <= y
         IN  <<least>> \o Sorted(S \ {least})

\* the number of turns of `while current < end: ...; current += 1 hour`
StepsBetween(current, end) ==
    IF current < end THEN (end - current + Hour - 1) \div Hour ELSE 0

\* generate_hour_slots: the start of every hour from opening to closing; a
\* closing time not after the opening time is taken as next day's
generate_hour_slots(open_time, close_time) ==
    LET end == IF close_time <= open_time THEN close_time + Day ELSE close_time
    IN  [k \in 1..StepsBetween(open_time, end) |-> (open_time + (k - 1) * Hour) % Day]

\* expand_booking_slots: the start of every hour from start up to end
expand_booking_slots(start, end) ==
    {start + (k - 1) * Hour : k \in 1..StepsBetween(start, end)}

Range(f) == {f[k] : k \in DOMAIN f}

\* the response body of TurfAvailabilityView.get for the committed bookings bs
TurfAvailability(bs, t, d) ==
    LET confirmed == ConfirmedOn(bs, t, d)
        all_slots == generate_hour_slots(Turf(t).opening_time, Turf(t).closing_time)
        all_labels == [k \in DOMAIN all_slots |-> Format12(all_slots[k])]
        booked == UNION {expand_booking_slots(b.start_time, b.end_time) :
                            b \in HourlyOf(confirmed)}
        sorted == Sorted(booked)
    IN  IF FullDayOf(confirmed) # {}
        THEN [booked_slots |-> all_labels, blocked_slots |-> <<>>]
        ELSE [booked_slots |-> [k \in DOMAIN sorted |-> Format12(sorted[k])],
              blocked_slots |-> <<>>]

\* GET turf/<turf_id>/availability/?date=: TurfAvailabilityQuerySerializer
\* rejects a date before today; the handler writes nothing
TurfAvailabilityView_getFrom(p, turfs, dates) ==
    \E t \in turfs, d \in dates :
        /\ pc[p] = "idle"
        /\ nreq < MaxRequests
        /\ nreq' = nreq + 1
        /\ lastRead' =
              IF d < Today
              THEN [NoLastRead EXCEPT !.op = "availability", !.turf = t, !.date = d,
                                      !.status = 400, !.pre = bookings]
              ELSE [op |-> "availability", turf |-> t, date |-> d, status |-> 200,
                    booked_slots |-> TurfAvailability(bookings, t, d).booked_slots,
                    blocked_slots |-> TurfAvailability(bookings, t, d).blocked_slots,
                    slots |-> <<>>, pre |-> bookings]
        /\ UNCHANGED <<bookings, payments, bookingSlots, nextId, pc, req, tx, pre,
                       last, slotRows, nextSlotId, lastSlot, calc, turfRows>>

\* the weekday of a day number, Monday = 0; today is a Friday
Weekday(d) == (d + 3) % 7

\* generate_slots_for_date: the (start, end) ranges of the day's grid
generate_slots_for_date(open_time, close_time, d) ==
    LET hourly(from) == [k \in 1..StepsBetween(from, close_time) |->
                            <<from + (k - 1) * Hour, (from + k * Hour) % Day>>]
    IN  IF Weekday(d) \in {5, 6}
        THEN << <<Time(6, 0), Time(10, 0)>>, <<Time(10, 0), Time(14, 0)>>,
                <<Time(14, 0), Time(18, 0)>> >> \o hourly(Time(18, 0))
        ELSE hourly(open_time)

\* format_existing_slot, format_default_slot_range
format_existing_slot(slot) ==
    [slot_id |-> slot.id, from_time |-> Format12(slot.start_time),
     to_time |-> Format12(slot.end_time), status |-> slot.status,
     price |-> slot.price, label |-> slot.label]

format_default_slot_range(t, start_time, end_time) ==
    [slot_id |-> NULL, from_time |-> Format12(start_time),
     to_time |-> Format12(end_time), status |-> "AVAILABLE",
     price |-> Turf(t).price, label |-> "Open Session"]

\* build_slots_response: the "slots" list for the committed Slot rows
build_slots_response(rows, t, d) ==
    LET existing == {x \in rows : x.turf = t /\ x.date = d}
        slot_ranges == generate_slots_for_date(Turf(t).opening_time,
                                               Turf(t).closing_time, d)
        at(start) == {x \in existing : x.start_time = start}
    IN  [k \in DOMAIN slot_ranges |->
            IF at(slot_ranges[k][1]) # {}
            THEN format_existing_slot(CHOOSE x \in at(slot_ranges[k][1]) : TRUE)
            ELSE format_default_slot_range(t, slot_ranges[k][1], slot_ranges[k][2])]

\* GET slots/?turf_id=&date=: the handler writes nothing
SlotListView_getFrom(p, turfs, dates) ==
    \E t \in turfs, d \in dates :
        /\ pc[p] = "idle"
        /\ nreq < MaxRequests
        /\ nreq' = nreq + 1
        /\ lastRead' = [op |-> "slots", turf |-> t, date |-> d, status |-> 200,
                        booked_slots |-> <<>>, blocked_slots |-> <<>>,
                        slots |-> build_slots_response(slotRows, t, d),
                        pre |-> bookings]
        /\ UNCHANGED <<bookings, payments, bookingSlots, nextId, pc, req, tx, pre,
                       last, slotRows, nextSlotId, lastSlot, calc, turfRows>>

\* ------------------------------------------------------- slot management
\* a request of the slots app has been served: its response status and the
\* Slot table it leaves; the handlers of the slots app write nothing else.
\* IsAuthenticated lets every logged-in user in, and no handler reads
\* request.user
SlotReturn(op, r, st, rows) ==
    /\ nreq < MaxRequests
    /\ nreq' = nreq + 1
    /\ slotRows' = rows
    /\ nextSlotId' = nextSlotId + Cardinality({x.id : x \in rows} \ {x.id : x \in slotRows})
    /\ \E user \in Users :
          lastSlot' = [op |-> op, req |-> r, status |-> st, pre |-> slotRows,
                       post |-> rows, user |-> user]
    /\ UNCHANGED <<bookings, payments, bookingSlots, nextId, pc, req, tx, pre, last,
                   lastRead, calc, turfRows>>

SlotRow(id, t, d, start, end, st, price, label) ==
    [id |-> id, turf |-> t, date |-> d, start_time |-> start, end_time |-> end,
     status |-> st, price |-> price, label |-> label]

\* Slot.Meta.unique_together = ("turf", "date", "start_time")
SameStart(rows, x) ==
    {y \in rows : y.id # x.id /\ y.turf = x.turf /\ y.date = x.date
                              /\ y.start_time = x.start_time}

\* the filter without its date
SlotAt_any_date(rows, t, d, start, end) ==
    {y \in rows : y.turf = t /\ y.start_time = start /\ y.end_time = end}

\* Slot.objects.filter(turf_id=, date=, start_time=, end_time=).first()
SlotAt(rows, t, d, start, end) ==
    {y \in rows : y.turf = t /\ y.date = d /\ y.start_time = start /\ y.end_time = end}

\* setattr(slot, field, value) for every item of the data
ApplyData(row, data) ==
    [f \in DOMAIN row |-> IF f \in DOMAIN data THEN data[f] ELSE row[f]]

\* POST slots/sync/: SlotSerializer validates the status and the unique set
\* (turf, date, start_time), then saves
SlotCreateView_postFrom(p, turfs, dates, intervals, statuses) ==
    \E t \in turfs, d \in dates, iv \in intervals, st \in statuses :
        LET row == SlotRow(nextSlotId, t, d, iv[1], iv[2], st, Turf(t).price, "")
        IN  /\ pc[p] = "idle"
            /\ IF st \notin SlotStatus_CHOICES \/ SameStart(slotRows, row) # {}
               THEN SlotReturn("slot_create", row, 400, slotRows)
               ELSE SlotReturn("slot_create", row, 201, slotRows \cup {row})

SlotCreateView_post(p) ==
    SlotCreateView_postFrom(p, SlotTurfs, SlotDates, SlotIntervals, SlotStatusInputs)

\* PATCH slots/<slot_id>/: 404, then the BOOKED guard, then a partial
\* SlotSerializer update
SlotUpdateView_patch(p) ==
    \E id \in 1..nextSlotId, data \in SlotPatches :
        LET found == {x \in slotRows : x.id = id}
            r == [id |-> id, data |-> data]
        IN  /\ pc[p] = "idle"
            /\ IF found = {} THEN SlotReturn("slot_update", r, 404, slotRows)
               ELSE \E slot \in found :
                     LET new == ApplyData(slot, data)
                     IN  IF slot.status = "BOOKED"
                         THEN SlotReturn("slot_update", r, 400, slotRows)
                         ELSE IF new.status \notin SlotStatus_CHOICES
                                 \/ SameStart(slotRows, new) # {}
                         THEN SlotReturn("slot_update", r, 400, slotRows)
                         ELSE SlotReturn("slot_update", r, 200,
                                         (slotRows \ {slot}) \cup {new})

\* SlotDeleteView.delete without its BOOKED guard
SlotDeleteView_delete_unguarded(p) ==
    \E id \in 1..nextSlotId :
        LET found == {x \in slotRows : x.id = id}
            r == [id |-> id]
        IN  /\ pc[p] = "idle"
            /\ IF found = {} THEN SlotReturn("slot_delete", r, 404, slotRows)
               ELSE SlotReturn("slot_delete", r, 204, slotRows \ found)

\* DELETE slots/<slot_id>/delete/: 404, then the BOOKED guard, then delete
SlotDeleteView_delete(p) ==
    \E id \in 1..nextSlotId :
        LET found == {x \in slotRows : x.id = id}
            r == [id |-> id]
        IN  /\ pc[p] = "idle"
            /\ IF found = {} THEN SlotReturn("slot_delete", r, 404, slotRows)
               ELSE IF \E x \in found : x.status = "BOOKED"
               THEN SlotReturn("slot_delete", r, 400, slotRows)
               ELSE SlotReturn("slot_delete", r, 204, slotRows \ found)

\* a slot of a bulk payload, times as 12-hour clock text
SlotItem(iv, st) ==
    [from |-> Format12(iv[1]), to |-> Format12(iv[2]), status |-> st,
     price |-> 120, label |-> ""]

\* the payloads of the bulk endpoints: one slot, or two slots that are
\* disjoint, overlap with distinct starts, share a start, or are the same
SlotItems == {SlotItem(iv, "AVAILABLE") : iv \in SlotIntervals}
                \cup {SlotItem(<<Time(10, 0), Time(12, 0)>>, "BOOKED"),
                      SlotItem(<<Time(12, 0), Time(10, 0)>>, "AVAILABLE"),
                      SlotItem(<<Time(10, 0), Time(12, 0)>>, "SOLD")}
BulkPayloads ==
    {<<a>> : a \in SlotItems}
        \cup {<<SlotItem(<<Time(10, 0), Time(11, 0)>>, "AVAILABLE"),
                SlotItem(<<Time(11, 0), Time(13, 0)>>, "AVAILABLE")>>,
              <<SlotItem(<<Time(10, 0), Time(12, 0)>>, "AVAILABLE"),
                SlotItem(<<Time(11, 0), Time(13, 0)>>, "AVAILABLE")>>,
              <<SlotItem(<<Time(10, 0), Time(12, 0)>>, "AVAILABLE"),
                SlotItem(<<Time(10, 0), Time(11, 0)>>, "AVAILABLE")>>,
              <<SlotItem(<<Time(11, 0), Time(13, 0)>>, "AVAILABLE"),
                SlotItem(<<Time(10, 0), Time(12, 0)>>, "BOOKED")>>,
              <<SlotItem(<<Time(10, 0), Time(12, 0)>>, "BOOKED"),
                SlotItem(<<Time(10, 0), Time(12, 0)>>, "AVAILABLE")>>}

\* validate_slots of BulkSlotUpdateSerializer and SmartSlotSaveSerializer:
\* TRUE when every slot parses to start < end and has a known status
validate_slots(payload) ==
    \A k \in DOMAIN payload :
        /\ ParseTime12(payload[k].from) < ParseTime12(payload[k].to)
        /\ payload[k].status \in SlotStatus_CHOICES

\* validate_slots of BulkSlotPatchSerializer: only from and to are read
validate_patch_slots(payload) ==
    \A k \in DOMAIN payload : ParseTime12(payload[k].from) < ParseTime12(payload[k].to)

\* BulkSlotPatchSerializer.validate_data
validate_data(data) ==
    /\ DOMAIN data \subseteq {"status", "price", "label"}
    /\ "status" \in DOMAIN data => data.status \in SlotStatus_CHOICES

\* no two rows share (turf, date, start_time): the unique index accepts them
UniqueStarts(rows) == \A x \in rows : SameStart(rows, x) = {}

\* the bulk save whose delete leaves out .exclude(status=BOOKED)
BulkSlotSaveView_postFrom_delete_all(p, turfs, dates, payloads) ==
    \E t \in turfs, d \in dates, payload \in payloads :
        LET r == [turf |-> t, date |-> d, slots |-> payload]
            booked == {x \in slotRows : x.turf = t /\ x.date = d /\ x.status = "BOOKED"}
            clash == \E k \in DOMAIN payload : \E b \in booked :
                        ~( ParseTime12(payload[k].to) <= b.start_time
                           \/ ParseTime12(payload[k].from) >= b.end_time )
            kept == {x \in slotRows : ~(x.turf = t /\ x.date = d)}
            new == {SlotRow(nextSlotId + k - 1, t, d, ParseTime12(payload[k].from),
                            ParseTime12(payload[k].to), payload[k].status,
                            payload[k].price, payload[k].label) : k \in DOMAIN payload}
        IN  /\ pc[p] = "idle"
            /\ IF ~validate_slots(payload) \/ clash
               THEN SlotReturn("bulk_save", r, 400, slotRows)
               ELSE IF ~UniqueStarts(kept \cup new)
               THEN SlotReturn("bulk_save", r, 500, slotRows)
               ELSE SlotReturn("bulk_save", r, 200, kept \cup new)

\* POST slots/bulk-save/ (atomic): the overlap protection against BOOKED rows,
\* the delete of the other rows of the day, bulk_create of the payload; an
\* IntegrityError of bulk_create rolls the request back
BulkSlotSaveView_postFrom(p, turfs, dates, payloads) ==
    \E t \in turfs, d \in dates, payload \in payloads :
        LET r == [turf |-> t, date |-> d, slots |-> payload]
            booked == {x \in slotRows : x.turf = t /\ x.date = d /\ x.status = "BOOKED"}
            clash == \E k \in DOMAIN payload : \E b \in booked :
                        ~( ParseTime12(payload[k].to) <= b.start_time
                           \/ ParseTime12(payload[k].from) >= b.end_time )
            kept == {x \in slotRows : ~(x.turf = t /\ x.date = d) \/ x.status = "BOOKED"}
            new == {SlotRow(nextSlotId + k - 1, t, d, ParseTime12(payload[k].from),
                            ParseTime12(payload[k].to), payload[k].status,
                            payload[k].price, payload[k].label) : k \in DOMAIN payload}
        IN  /\ pc[p] = "idle"
            /\ IF ~validate_slots(payload) \/ clash
               THEN SlotReturn("bulk_save", r, 400, slotRows)
               ELSE IF ~UniqueStarts(kept \cup new)
               THEN SlotReturn("bulk_save", r, 500, slotRows)
               ELSE SlotReturn("bulk_save", r, 200, kept \cup new)

BulkSlotSaveView_post(p) ==
    BulkSlotSaveView_postFrom(p, SlotTurfs, SlotDates, BulkPayloads)

\* the loop of BulkSlotUpdateView.patch from slot k on, over the rows written
\* so far: the final rows, or the status of the error that ends the request
RECURSIVE BulkPatchLoop(_, _, _, _, _, _)
BulkPatchLoop(rows, payload, k, data, t, d) ==
    IF k > Len(payload) THEN [status |-> 200, rows |-> rows]
    ELSE LET at == SlotAt(rows, t, d, ParseTime12(payload[k].from),
                          ParseTime12(payload[k].to))
         IN  IF at = {} THEN [status |-> 400, rows |-> rows]
             ELSE LET slot == CHOOSE x \in at : TRUE
                  IN  IF slot.status = "BOOKED" THEN [status |-> 400, rows |-> rows]
                      ELSE BulkPatchLoop((rows \ {slot}) \cup {ApplyData(slot, data)},
                                         payload, k + 1, data, t, d)

\* PATCH slots/bulk-update/ (atomic): every named slot gets the data; a
\* ValidationError rolls the request back
BulkSlotUpdateView_patch(p) ==
    \E t \in SlotTurfs, d \in SlotDates, payload \in BulkPayloads, data \in BulkPatchData :
        LET r == [turf |-> t, date |-> d, slots |-> payload, data |-> data]
            out == BulkPatchLoop(slotRows, payload, 1, data, t, d)
        IN  /\ pc[p] = "idle"
            /\ IF ~validate_patch_slots(payload) \/ ~validate_data(data)
               THEN SlotReturn("bulk_update", r, 400, slotRows)
               ELSE IF out.status # 200
               THEN SlotReturn("bulk_update", r, out.status, slotRows)
               ELSE SlotReturn("bulk_update", r, 200, out.rows)

\* the loop of SmartSlotSaveView.patch from slot k on: update the slot with
\* the same start and end, or create it; id is the next free Slot id
RECURSIVE SmartSaveLoop(_, _, _, _, _, _)
SmartSaveLoop(rows, payload, k, id, t, d) ==
    IF k > Len(payload) THEN [status |-> 200, rows |-> rows]
    ELSE LET s == payload[k]
             at == SlotAt(rows, t, d, ParseTime12(s.from), ParseTime12(s.to))
             new == SlotRow(id, t, d, ParseTime12(s.from), ParseTime12(s.to),
                            s.status, s.price, s.label)
         IN  IF at # {}
             THEN LET slot == CHOOSE x \in at : TRUE
                  IN  IF slot.status = "BOOKED" THEN [status |-> 400, rows |-> rows]
                      ELSE SmartSaveLoop(
                              (rows \ {slot}) \cup
                                  {[slot EXCEPT !.status = s.status, !.price = s.price,
                                                !.label = s.label]},
                              payload, k + 1, id, t, d)
             ELSE IF SameStart(rows, new) # {} THEN [status |-> 500, rows |-> rows]
             ELSE SmartSaveLoop(rows \cup {new}, payload, k + 1, id + 1, t, d)

\* PATCH slots/smart-save/ (atomic): an error rolls the request back
SmartSlotSaveView_patch(p) ==
    \E t \in SlotTurfs, d \in SlotDates, payload \in BulkPayloads :
        LET r == [turf |-> t, date |-> d, slots |-> payload]
            out == SmartSaveLoop(slotRows, payload, 1, nextSlotId, t, d)
        IN  /\ pc[p] = "idle"
            /\ IF ~validate_slots(payload)
               THEN SlotReturn("smart_save", r, 400, slotRows)
               ELSE IF out.status # 200
               THEN SlotReturn("smart_save", r, out.status, slotRows)
               ELSE SlotReturn("smart_save", r, 200, out.rows)

\* the steps of the slot-based booking flow
SlotFlowStep(p) ==
    \/ SlotFlow_CreateBooking(p)
    \/ SlotFlow_Check(p)
    \/ SlotFlow_CreateSlot(p)
    \/ SlotFlow_Reject(p)
    \/ SlotFlow_Commit(p)

\* requests served one at a time: a request arrives only when none is in
\* flight; every allocation path, the slot-based flow included
Quiescent == \A q \in Procs : pc[q] = "idle"

NextSeq ==
    \E p \in Procs :
        \/ Quiescent /\ BookingViewSet_create(p)
        \/ Quiescent /\ BookingPayView_post(p)
        \/ Quiescent /\ BookingConfirmView_post(p)
        \/ Quiescent /\ BookingCreateSerializer_save(p)
        \/ Quiescent /\ BookingViewSet_destroy(p)
        \/ Step(p)
        \/ SlotFlowStep(p)

SpecSeq == Init /\ [][NextSeq]_vars

\* requests served one at a time, with request data at and beyond the limits
\* of the validation, and the two availability reads
NextInputs ==
    \E p \in Procs :
        \/ Quiescent /\ BookingViewSet_createFrom(p, WideTurfs, WideDates, WideCreateInputs)
        \/ Quiescent /\ BookingPayView_postFrom(p, WideTurfs, WideDates, WideReqSlots, WideRefs)
        \/ Quiescent /\ BookingConfirmView_postFrom(p, WideTurfs, WideDates, WideReqSlots)
        \/ Quiescent /\ BookingViewSet_destroy(p)
        \/ Quiescent /\ TurfAvailabilityView_getFrom(p, WideTurfs, WideDates)
        \/ Quiescent /\ SlotListView_getFrom(p, WideTurfs, WideDates)
        \/ Step(p)

SpecInputs == Init /\ [][NextInputs]_vars

\* the slots app: slot management and the slot list, one request at a time
NextSlots ==
    \E p \in Procs :
        \/ SlotCreateView_post(p)
        \/ SlotUpdateView_patch(p)
        \/ SlotDeleteView_delete(p)
        \/ BulkSlotSaveView_post(p)
        \/ BulkSlotUpdateView_patch(p)
        \/ SmartSlotSaveView_patch(p)
        \/ SlotListView_getFrom(p, SlotTurfs, SlotDates)

SpecSlots == Init /\ [][NextSlots]_vars

\* ------------------------------------------------------------ properties
AllocOps == {"create", "pay", "confirm"}

IsSuccess(rs) == rs.status \in {200, 201}

\* half-open overlap of two HOURLY rows or requests
Overlaps(a, b) == a.start_time < b.end_time /\ a.end_time > b.start_time

SameDay(a, b) == a.turf = b.turf /\ a.booking_date = b.booking_date

\* two bookings that may not both be CONFIRMED on one (venue, date)
Conflicting(a, b) ==
    /\ SameDay(a, b)
    /\ \/ a.booking_type = FULL_DAY
       \/ b.booking_type = FULL_DAY
       \/ Overlaps(a, b)

\* the request lies inside the venue's operating hours, start before end
WithinHours(r) ==
    /\ r.start_time < r.end_time
    /\ r.start_time >= Turf(r.turf).opening_time
    /\ r.end_time <= Turf(r.turf).closing_time

\* the intervals a request asks for
ReqIntervals(r) ==
    IF r.op = "slotflow"
    THEN {<<ParseTime12(r.slots_booked[k].from_time),
            ParseTime12(r.slots_booked[k].to_time)>> :
             k \in 1..Len(r.slots_booked)}
    ELSE {<<r.start_time, r.end_time>>}

\* the request asks for time that maintenance block m covers
OverlapsMaintenance(r, m) ==
    /\ m.turf = r.turf
    /\ m.date = r.booking_date
    /\ \/ r.booking_type = FULL_DAY
       \/ \E iv \in ReqIntervals(r) : iv[1] < m.end_time /\ iv[2] > m.start_time

\* the payment recorded under the request's transaction_ref before it arrived
RecordedBefore == PaymentsWithRef(last.pre.payments, last.req.transaction_ref)

\* C1: in every reachable state any two distinct CONFIRMED HOURLY bookings of
\* the same (venue, date) have disjoint [start_time, end_time) intervals.
C1_HourlyDisjoint ==
    \A a, b \in bookings :
        ( /\ a.id # b.id
          /\ SameDay(a, b)
          /\ a.status = CONFIRMED /\ b.status = CONFIRMED
          /\ a.booking_type = HOURLY /\ b.booking_type = HOURLY )
        => ~Overlaps(a, b)

C3_ConcurrentOneWinner ==
    \A mine, other \in last.post.bookings :
        ( /\ last.req.op \in AllocOps
          /\ mine.id \in last.created
          /\ other.id \notin last.created
          /\ other.id \notin {b.id : b \in last.pre.bookings}
          /\ mine.status = CONFIRMED /\ other.status = CONFIRMED )
        => ~Conflicting(mine, other)

\* C4: with exactly one CONFIRMED booking [s, e) on the (venue, date), HOURLY,
\* when the request arrives, an hourly allocation request [s', e') inside the
\* operating hours is rejected with a conflict (409) when s' < e and e' > s,
\* and otherwise succeeds and commits its booking.
C4_OverlapRule ==
    LET r == last.req
        existing == ConfirmedOn(last.pre.bookings, r.turf, r.booking_date)
    IN  ( /\ r.op \in AllocOps
          /\ r.booking_type = HOURLY
          /\ WithinHours(r)
          /\ Cardinality(existing) = 1
          /\ \A b \in existing : b.booking_type = HOURLY )
        => \A b \in existing :
              IF Overlaps(r, b)
              THEN last.resp.status = 409 /\ last.created = {}
              ELSE IsSuccess(last.resp) /\ last.created # {}

\* C5: a pay-and-confirm call that repeats an earlier call (same venue, date,
\* interval and transaction_ref, already recorded on a Payment) answers with
\* the booking id of the earlier call, and exactly one Payment row carries
\* that transaction_ref afterwards.
C5_ReplaySameBooking ==
    \A pm \in RecordedBefore :
        \A b \in last.pre.bookings :
            ( /\ last.req.op = "pay"
              /\ b.id = pm.booking
              /\ SameDay(b, last.req)
              /\ b.start_time = last.req.start_time
              /\ b.end_time = last.req.end_time )
            => /\ last.resp.booking_id = pm.booking
               /\ Cardinality(PaymentsWithRef(last.post.payments,
                                              last.req.transaction_ref)) = 1

\* C6: a pay-and-confirm request whose transaction_ref is already recorded
\* leaves the set of Booking rows as it was before the request.
C6_ReplayNoSecondBooking ==
    (last.req.op = "pay" /\ RecordedBefore # {})
        => last.post.bookings = last.pre.bookings

\* C7: a pay-and-confirm request whose transaction_ref is already recorded is
\* never answered with a conflict: it gets the original outcome (success, the
\* original booking id, payment status and amount).
C7_ReplayOriginalOutcome ==
    \A pm \in RecordedBefore :
        last.req.op = "pay"
        => /\ last.resp.status = 200
           /\ last.resp.booking_id = pm.booking
           /\ last.resp.payment_status = pm.status
           /\ last.resp.amount = pm.amount_paid

\* C8: the pay-and-confirm request that loses the uniqueness race on
\* transaction_ref (its insert of the Payment raises IntegrityError) commits
\* no Booking, leaves one Payment row for the transaction_ref, and reports
\* the winner's booking.
C8_RaceLoser ==
    (last.req.op = "pay" /\ last.resp.message = "Payment already recorded")
        => /\ last.created = {}
           /\ Cardinality(PaymentsWithRef(last.post.payments,
                                          last.req.transaction_ref)) = 1
           /\ \A pm \in PaymentsWithRef(last.post.payments,
                                        last.req.transaction_ref) :
                 last.resp.booking_id = pm.booking

\* C9: an allocation request for the interval of a CANCELLED booking (one
\* that was CONFIRMED: it carries its interval itself) of the same (venue,
\* date) succeeds, through every allocation path, the slot-based flow
\* included, when no CONFIRMED booking conflicts with it.
C9_CancelledSlotFree ==
    LET r == last.req
    IN  \A c \in last.pre.bookings :
            ( /\ r.op \in AllocOps \cup {"slotflow"}
              /\ c.status = CANCELLED
              /\ SameDay(c, r)
              /\ c.booking_type = r.booking_type
              /\ ReqIntervals(r) = {<<c.start_time, c.end_time>>}
              /\ \A b \in last.pre.bookings :
                    b.status = CONFIRMED => ~Conflicting(b, c) )
            => IsSuccess(last.resp) /\ last.created # {}

\* C11: an allocation request, through any allocation path, for time that
\* overlaps a MaintenanceBlock of the same (venue, date) does not succeed and
\* creates no Booking.
C11_MaintenanceRejected ==
    \A m \in MaintenanceBlocks :
        ( /\ last.req.op \in AllocOps \cup {"slotflow"}
          /\ OverlapsMaintenance(last.req, m) )
        => ~IsSuccess(last.resp) /\ last.created = {}

\* no CONFIRMED booking of (t, d) in bs covers any part of [s, e)
NotCovered(bs, t, d, s, e) ==
    \A b \in ConfirmedOn(bs, t, d) :
        b.booking_type # FULL_DAY /\ ~(b.start_time < e /\ b.end_time > s)

\* C12: every interval of the grid a read reports that overlaps a
\* MaintenanceBlock of the (venue, date) and is covered by no CONFIRMED booking
\* is reported as MAINTENANCE (blocked), by the availability read and by the
\* slot list.
C12_MaintenanceReported ==
    \A m \in MaintenanceBlocks :
        ( /\ lastRead.status = 200
          /\ m.turf = lastRead.turf
          /\ m.date = lastRead.date )
        => LET t == lastRead.turf
               d == lastRead.date
               hours == generate_hour_slots(Turf(t).opening_time, Turf(t).closing_time)
               ranges == generate_slots_for_date(Turf(t).opening_time,
                                                 Turf(t).closing_time, d)
           IN  /\ lastRead.op = "availability" =>
                    \A k \in DOMAIN hours :
                        ( /\ hours[k] < m.end_time /\ hours[k] + Hour > m.start_time
                          /\ NotCovered(lastRead.pre, t, d, hours[k], hours[k] + Hour) )
                        => Format12(hours[k]) \in Range(lastRead.blocked_slots)
               /\ lastRead.op = "slots" =>
                    \A k \in DOMAIN ranges :
                        ( /\ ranges[k][1] < m.end_time /\ ranges[k][2] > m.start_time
                          /\ NotCovered(lastRead.pre, t, d, ranges[k][1], ranges[k][2]) )
                        => lastRead.slots[k].status = "MAINTENANCE"

\* the request passes every check other than the date checks: well-formed
\* data, inside operating hours, no CONFIRMED booking in its way, and (on the
\* pay path) a transaction_ref not yet recorded
OtherChecksPass(r) ==
    /\ r.booking_type = HOURLY => WithinHours(r)
    /\ r.op = "pay" => BookingDetailsSerializer_valid(r.start_time, r.duration_hours)
    /\ \A b \in last.pre.bookings : b.status = CONFIRMED => ~Conflicting(b, r)
    /\ RecordedBefore = {}

DaysAhead(r) == r.booking_date - Today

\* C13: through every allocation path a request dated before today is rejected
\* with a validation error and creates no Booking, and a request dated today
\* that passes the other checks is accepted.
C13_PastDateRejected ==
    LET r == last.req
    IN  r.op \in AllocOps =>
            /\ r.booking_date < Today => last.resp.status = 400 /\ last.created = {}
            /\ (r.booking_date = Today /\ OtherChecksPass(r)) =>
                   IsSuccess(last.resp) /\ last.created # {}

\* C14: through every allocation path a FULL_DAY request is rejected when
\* dated more than 60 days ahead and accepted at exactly 60, an HOURLY request
\* is rejected when dated more than 7 days ahead and accepted at exactly 7
\* (other checks passing).
C14_AdvanceCeilings ==
    LET r == last.req
        ceiling == IF r.booking_type = FULL_DAY THEN FullDayAdvanceDays
                   ELSE HourlyAdvanceDays
    IN  r.op \in AllocOps =>
            /\ DaysAhead(r) > ceiling => ~IsSuccess(last.resp) /\ last.created = {}
            /\ (DaysAhead(r) = ceiling /\ OtherChecksPass(r)) =>
                   IsSuccess(last.resp) /\ last.created # {}

\* C15: every persisted HOURLY booking that carries its interval has
\* start_time < end_time inside the venue's operating hours, and a positive
\* duration_hours when it has one.
C15_HourlyWellFormed ==
    \A b \in bookings :
        (b.booking_type = HOURLY /\ b.start_time # NULL) =>
            /\ WithinHours(b)
            /\ b.duration_hours # NULL => b.duration_hours > 0

\* the response is an error response
IsError(rs) == rs.status >= 400

ValidInput(r) ==
    IF r.op = "create" THEN BookingSerializer_validate(r) = ""
    ELSE BookingDetailsSerializer_valid(r.start_time, r.duration_hours)

\* a CONFIRMED booking recorded before the request stands in its way
BlockedByBooking(r) ==
    \E b \in last.pre.bookings : b.status = CONFIRMED /\ Conflicting(b, r)

\* C17: an allocation request with valid input that is rejected because of an
\* existing booking gets a conflict error (409), and one rejected for
\* malformed or out-of-range input gets a validation error (400).
C17_ErrorClasses ==
    LET r == last.req
    IN  (r.op \in AllocOps /\ IsError(last.resp)) =>
            /\ (ValidInput(r) /\ BlockedByBooking(r)) => last.resp.status = 409
            /\ ~ValidInput(r) => last.resp.status = 400

\* C18: no two persisted Slot rows of one (venue, date) have overlapping
\* half-open [start_time, end_time) intervals.
C18_NoSlotOverlap ==
    \A x \in slotRows : \A y \in slotRows :
        (x.id # y.id /\ x.turf = y.turf /\ x.date = y.date) =>
            ~(x.start_time < y.end_time /\ y.start_time < x.end_time)

\* the BOOKED rows of the Slot table as the last slot-management request found it
BookedBefore == {x \in lastSlot.pre : x.status = "BOOKED"}

\* the last slot-management request was aimed at a BOOKED row: by id (single
\* update, delete), by an overlapping slot (bulk save), by a slot with the
\* row's start and end (bulk patch, smart save)
AimedAtBooked ==
    LET r == lastSlot.req
    IN  \E x \in BookedBefore :
            \/ lastSlot.op \in {"slot_update", "slot_delete"} /\ r.id = x.id
            \/ /\ lastSlot.op = "bulk_save"
               /\ r.turf = x.turf /\ r.date = x.date
               /\ \E k \in DOMAIN r.slots :
                     /\ ParseTime12(r.slots[k].from) < x.end_time
                     /\ ParseTime12(r.slots[k].to) > x.start_time
            \/ /\ lastSlot.op \in {"bulk_update", "smart_save"}
               /\ r.turf = x.turf /\ r.date = x.date
               /\ \E k \in DOMAIN r.slots :
                     /\ ParseTime12(r.slots[k].from) = x.start_time
                     /\ ParseTime12(r.slots[k].to) = x.end_time

\* C19: a slot-management request leaves every BOOKED Slot row as it was, and
\* a request aimed at a BOOKED row is rejected and changes nothing.
C19_BookedImmutable ==
    /\ BookedBefore \subseteq lastSlot.post
    /\ AimedAtBooked => lastSlot.status >= 400 /\ lastSlot.post = lastSlot.pre

\* a delete of a BOOKED slot was asked for and rejected
C19_Witness ==
    /\ lastSlot.op = "slot_delete"
    /\ AimedAtBooked
    /\ lastSlot.status = 400
    /\ lastSlot.post = lastSlot.pre

\* C20: no slot-management request creates a Slot row with status BOOKED or
\* turns an existing row BOOKED: every BOOKED row it leaves was BOOKED before.
C20_BookedOnlyByAllocator ==
    \A x \in lastSlot.post :
        x.status = "BOOKED" =>
            \E y \in lastSlot.pre : y.id = x.id /\ y.status = "BOOKED"

\* C10: a cancellation changes only the status of the cancelled booking, to
\* CANCELLED: the row stays, its other columns are unchanged, and no other
\* Booking row and no Payment row is changed or deleted.
C10_CancelFrame ==
    (last.req.op = "destroy" /\ last.resp.status = 204)
        => /\ last.post.payments = last.pre.payments
           /\ \E b \in last.pre.bookings :
                 /\ b.id = last.req.id
                 /\ last.post.bookings =
                        (last.pre.bookings \ {b})
                            \cup {[b EXCEPT !.status = CANCELLED]}

\* a CONFIRMED booking with a payment was cancelled while another booking existed
C10_Witness ==
    /\ last.req.op = "destroy" /\ last.resp.status = 204
    /\ \E b \in last.pre.bookings :
          /\ b.id = last.req.id /\ b.status = CONFIRMED
          /\ \E pm \in last.pre.payments : pm.booking = b.id
    /\ Cardinality(last.pre.bookings) > 1

\* the [start_time, end_time) ranges a slot-management write brings
IncomingRanges ==
    LET r == lastSlot.req
    IN  IF lastSlot.op = "slot_create" THEN {<<r.start_time, r.end_time>>}
        ELSE IF lastSlot.op \in {"bulk_save", "smart_save"}
        THEN {<<ParseTime12(r.slots[k].from), ParseTime12(r.slots[k].to)>> :
                k \in DOMAIN r.slots}
        ELSE {}

\* an incoming range of the last write overlaps a BOOKED row of its (venue, date)
OverlapsBooked ==
    \E x \in BookedBefore : \E iv \in IncomingRanges :
        /\ lastSlot.req.turf = x.turf /\ lastSlot.req.date = x.date
        /\ iv[1] < x.end_time /\ iv[2] > x.start_time

\* C21: a single create, bulk save or smart save with a range that overlaps a
\* BOOKED Slot row of the same (venue, date) is rejected and persists nothing,
\* also when the range has a different start or end than the BOOKED row.
C21_OverlapBookedRejected ==
    OverlapsBooked => lastSlot.status >= 400 /\ lastSlot.post = lastSlot.pre

\* ------------------------------------------------------ the grid generators
\* how often one function is called on the same arguments
MaxCalls == 2

\* opening and closing times: every half hour of the day
GridTimes == {Time(h, m) : h \in 0..23, m \in {0, 30}}
\* one week of dates: Today is a Friday, Today + 1 and Today + 2 the weekend
GridDates == Today..(Today + 6)

GridInputs ==
    {[open_time |-> o, close_time |-> c, selected_date |-> d] :
        o \in GridTimes, c \in GridTimes, d \in GridDates}

InitGrid == Idle /\ calc \in {[NoCalc EXCEPT !.fn = "grid", !.args = a] : a \in GridInputs}

\* a call of generate_hour_slots(turf.opening_time, turf.closing_time), as
\* TurfAvailabilityView.get makes it
generate_hour_slots_call ==
    /\ calc.fn = "grid"
    /\ Len(calc.hours) < MaxCalls
    /\ calc' = [calc EXCEPT !.hours =
                   Append(@, generate_hour_slots(calc.args.open_time,
                                                 calc.args.close_time))]
    /\ UNCHANGED <<bookings, payments, bookingSlots, nextId, pc, req, tx, pre, last,
                   nreq, slotVars, turfRows>>

\* a call of generate_slots_for_date(turf.opening_time, turf.closing_time,
\* selected_date), as build_slots_response makes it
generate_slots_for_date_call ==
    /\ calc.fn = "grid"
    /\ Len(calc.ranges) < MaxCalls
    /\ calc' = [calc EXCEPT !.ranges =
                   Append(@, generate_slots_for_date(calc.args.open_time,
                                                     calc.args.close_time,
                                                     calc.args.selected_date))]
    /\ UNCHANGED <<bookings, payments, bookingSlots, nextId, pc, req, tx, pre, last,
                   nreq, slotVars, turfRows>>

NextGrid ==
    \/ generate_hour_slots_call
    \/ generate_slots_for_date_call

SpecGrid == InitGrid /\ [][NextGrid]_vars

\* the intervals the start times of generate_hour_slots stand for: one hour each
HourRanges(hours) == [k \in DOMAIN hours |-> <<hours[k], (hours[k] + Hour) % Day>>]

\* the width of an interval of times of day, the end taken on the next day when
\* it is not after the start
Width(r) == IF r[2] > r[1] THEN r[2] - r[1] ELSE r[2] + Day - r[1]

RECURSIVE Widths(_, _)
Widths(ranges, k) == IF k = 0 THEN 0 ELSE Widths(ranges, k - 1) + Width(ranges[k])

\* a grid that starts at the opening time, runs without a gap and stops with
\* the interval that reaches the closing time of the next day
RunsOvernight(ranges, open_time, close_time) ==
    LET n == Len(ranges)
        span == close_time + Day - open_time
    IN  /\ n > 0
        /\ ranges[1][1] = open_time
        /\ \A k \in 1..(n - 1) : ranges[k][2] = ranges[k + 1][1]
        /\ Widths(ranges, n) >= span
        /\ Widths(ranges, n - 1) < span

\* C22: for a venue whose closing_time is less than or equal to its
\* opening_time, the hourly generator of the availability read and the
\* date-aware generator of the slot list both return a non-empty grid that
\* runs from opening_time up to the closing_time of the next day.
C22_OvernightGrid ==
    (calc.fn = "grid" /\ calc.args.close_time <= calc.args.open_time) =>
        /\ \A i \in DOMAIN calc.hours :
              RunsOvernight(HourRanges(calc.hours[i]), calc.args.open_time,
                            calc.args.close_time)
        /\ \A i \in DOMAIN calc.ranges :
              RunsOvernight(calc.ranges[i], calc.args.open_time, calc.args.close_time)

\* a strictly ordered sequence of disjoint intervals whose union is exactly
\* [open_time, close_time)
ExactCover(ranges, open_time, close_time) ==
    LET n == Len(ranges)
    IN  /\ n > 0
        /\ ranges[1][1] = open_time
        /\ ranges[n][2] = close_time
        /\ \A k \in 1..n : ranges[k][1] < ranges[k][2]
        /\ \A k \in 1..(n - 1) : ranges[k][2] = ranges[k + 1][1]

\* C23: for a venue with opening_time < closing_time and any date, each
\* generated grid is a strictly ordered sequence of pairwise-disjoint half-open
\* intervals whose union is exactly [opening_time, closing_time).
C23_GridCoversOpeningHours ==
    (calc.fn = "grid" /\ calc.args.open_time < calc.args.close_time) =>
        /\ \A i \in DOMAIN calc.hours :
              ExactCover(HourRanges(calc.hours[i]), calc.args.open_time,
                         calc.args.close_time)
        /\ \A i \in DOMAIN calc.ranges :
              ExactCover(calc.ranges[i], calc.args.open_time, calc.args.close_time)

\* the start times of a grid of intervals
Starts(ranges) == [k \in DOMAIN ranges |-> ranges[k][1]]

\* C24: for every venue (opening_time, closing_time) and date, the grid of the
\* availability read and the grid of the slot list have the same sequence of
\* interval start times, and each generator returns the same sequence on every
\* call with the same arguments.
C24_SameGrid ==
    calc.fn = "grid" =>
        /\ \A i \in DOMAIN calc.hours : \A j \in DOMAIN calc.ranges :
              calc.hours[i] = Starts(calc.ranges[j])
        /\ \A i \in DOMAIN calc.hours : calc.hours[i] = calc.hours[1]
        /\ \A j \in DOMAIN calc.ranges : calc.ranges[j] = calc.ranges[1]

\* ------------------------------------------------------------ the pricing
WEEKEND_DAYS == {5, 6}
is_weekend(d) == Weekday(d) \in WEEKEND_DAYS

FullDayWeekendPrice == 12000
FullDayWeekdayPrice == 10000
WeekendRate == 1000
WeekdayRate == 800
\* peak_multiplier = Decimal("1.5"), as a fraction
PeakMultiplierNum == 3
PeakMultiplierDen == 2
peak_start == Time(18, 0)
peak_end == Time(22, 0)

\* overlaps with both comparisons weakened: intervals that touch count
overlaps_touching(a_start, a_end, b_start, b_end) == a_start <= b_end /\ a_end >= b_start

overlaps(a_start, a_end, b_start, b_end) == a_start < b_end /\ a_end > b_start

\* what a call returns: a total, or the exception it raised
Returned(total) == [raised |-> FALSE, total |-> total]
Raised == [raised |-> TRUE, total |-> 0]

\* the while loop of calculate_booking_price: every turn charges one rate for
\* [current, next_hour) and moves to the next full hour; time(24, 0) raises
\* ValueError
RECURSIVE price_loop(_, _, _, _)
price_loop(current, end_time, base, total) ==
    IF ~(current < end_time) THEN Returned(total)
    ELSE IF current \div Hour + 1 > 23 THEN Raised
    ELSE LET next_hour == Time(current \div Hour + 1, 0)
             price == IF overlaps(current, next_hour, peak_start, peak_end)
                      THEN (base * PeakMultiplierNum) \div PeakMultiplierDen
                      ELSE base
         IN  price_loop(next_hour, end_time, base, total + price)

calculate_booking_price(booking) ==
    LET weekend == is_weekend(booking.booking_date)
    IN  IF booking.booking_type = FULL_DAY
        THEN Returned(IF weekend THEN FullDayWeekendPrice ELSE FullDayWeekdayPrice)
        ELSE price_loop(booking.start_time, booking.end_time,
                        IF weekend THEN WeekendRate ELSE WeekdayRate, 0)

\* the bookings priced: every HOURLY pair of half-hour times and FULL_DAY, on
\* each day of a week
PricingInputs ==
    {[booking_type |-> HOURLY, booking_date |-> d, start_time |-> s, end_time |-> e] :
        d \in GridDates, s \in GridTimes, e \in GridTimes}
    \cup {[booking_type |-> FULL_DAY, booking_date |-> d, start_time |-> NULL,
           end_time |-> NULL] : d \in GridDates}

InitPricing ==
    Idle /\ calc \in {[NoCalc EXCEPT !.fn = "price", !.args = a] : a \in PricingInputs}

\* a call of calculate_booking_price(booking)
calculate_booking_price_call ==
    /\ calc.fn = "price"
    /\ Len(calc.prices) < MaxCalls
    /\ calc' = [calc EXCEPT !.prices = Append(@, calculate_booking_price(calc.args))]
    /\ UNCHANGED <<bookings, payments, bookingSlots, nextId, pc, req, tx, pre, last,
                   nreq, slotVars, turfRows>>

NextPricing == calculate_booking_price_call

SpecPricing == InitPricing /\ [][NextPricing]_vars

\* the rate of the day of a date
RateOn(d) == IF is_weekend(d) THEN WeekendRate ELSE WeekdayRate

\* the sum over the n hours [start + k, start + k + 1) of the rate, times the
\* peak multiplier for the hours h with h < peak_end and h + 1 > peak_start
RECURSIVE HourlySum(_, _, _)
HourlySum(start, n, rate) ==
    IF n = 0 THEN 0
    ELSE LET h == start + (n - 1) * Hour
         IN  HourlySum(start, n - 1, rate)
               + (IF h < peak_end /\ h + Hour > peak_start
                  THEN (rate * PeakMultiplierNum) \div PeakMultiplierDen ELSE rate)

\* an HOURLY booking over a whole number of hours was priced
PricedWholeHours ==
    /\ calc.fn = "price"
    /\ calc.args.booking_type = HOURLY
    /\ calc.args.start_time < calc.args.end_time
    /\ (calc.args.end_time - calc.args.start_time) % Hour = 0
    /\ Len(calc.prices) > 0

\* C25: the price of an HOURLY booking [start, end) is the sum, over each hour
\* contained in [start, end), of the rate of the day (weekend rate on Saturday
\* and Sunday, else weekday rate), multiplied by the peak multiplier exactly
\* for the hours h with h < peak_end and h + 1 > peak_start.
C25_HourlyPrice ==
    PricedWholeHours =>
        \A i \in DOMAIN calc.prices :
            calc.prices[i] =
                Returned(HourlySum(calc.args.start_time,
                                   (calc.args.end_time - calc.args.start_time) \div Hour,
                                   RateOn(calc.args.booking_date)))

\* the booking 17:00-23:00 on a Saturday was priced
PricedSaturdayEvening ==
    /\ calc.fn = "price"
    /\ calc.args.booking_type = HOURLY
    /\ Weekday(calc.args.booking_date) = 5
    /\ calc.args.start_time = Time(17, 0)
    /\ calc.args.end_time = Time(23, 0)
    /\ Len(calc.prices) > 0

\* C26 as stated: an hourly booking 17:00-23:00 on a Saturday (peak window
\* 18:00-22:00, multiplier 1.5, weekend rate 1000) is priced at 8500.
C26_SaturdayEvening8500 ==
    PricedSaturdayEvening =>
        \A i \in DOMAIN calc.prices : calc.prices[i] = Returned(8500)

\* C26: an hourly booking 17:00-23:00 on a Saturday (peak window 18:00-22:00,
\* multiplier 1.5, weekend rate 1000) is priced at 8000: hour 17-18 off-peak,
\* the four hours 18-22 peak, hour 22-23 off-peak.
C26_SaturdayEvening8000 ==
    PricedSaturdayEvening =>
        \A i \in DOMAIN calc.prices : calc.prices[i] = Returned(8000)

\* the Saturday evening booking was priced, and at 8000
C26_Witness ==
    PricedSaturdayEvening /\ calc.prices[1] = Returned(8000)

\* calculate_booking_price summed over the BookingSlot rows of a set
RECURSIVE SlotsPrice(_)
SlotsPrice(rows) ==
    IF rows = {} THEN 0
    ELSE LET x == CHOOSE y \in rows : TRUE
         IN  calculate_booking_price([booking_type |-> HOURLY,
                                      booking_date |-> x.booking_date,
                                      start_time |-> x.start_time,
                                      end_time |-> x.end_time]).total
               + SlotsPrice(rows \ {x})

\* the price of calculate_booking_price for a Booking row: for its type, date
\* and interval, or for the intervals of its BookingSlot rows when it has them
EnginePrice(b, slots) ==
    IF b.booking_type = HOURLY /\ b.start_time = NULL
    THEN SlotsPrice({x \in slots : x.booking = b.id})
    ELSE calculate_booking_price(b).total

\* the Booking rows the last request created and committed
CreatedRows == {b \in last.post.bookings : b.id \in last.created}

\* C27: every booking created by a successful allocation, on any path, has a
\* persisted base_amount equal to the price calculate_booking_price gives for
\* its type, date and interval.
C27_BaseAmountFromEngine ==
    IsSuccess(last.resp) =>
        \A b \in CreatedRows : b.base_amount = EnginePrice(b, last.post.slots)

\* the three amounts of a Booking row are set and related by the venue's fee
AmountsRelated(b) ==
    /\ b.base_amount # NULL /\ b.platform_fee # NULL /\ b.total_amount # NULL
    /\ b.platform_fee * 100 = b.base_amount * Turf(b.turf).platform_fee_percent
    /\ b.total_amount = b.base_amount + b.platform_fee

COMPLETED == "COMPLETED"

\* the data of a booking update: booking_date and slots are both optional,
\* and the slot list may be empty
UpdateInputs ==
    {[booking_date |-> Today + 1]}
        \cup {[slots |-> sl] : sl \in {<<>>, <<SlotB>>}}
        \cup {[booking_date |-> Today + 1, slots |-> sl] : sl \in {<<>>, <<SlotB>>}}

UpdateRequest(b, data) ==
    [op |-> "update", turf |-> b.turf,
     booking_date |-> IF "booking_date" \in DOMAIN data THEN data.booking_date
                      ELSE b.booking_date,
     booking_type |-> b.booking_type, start_time |-> NULL, end_time |-> NULL,
     duration_hours |-> NULL, transaction_ref |-> "", id |-> b.id,
     slots_booked |-> IF "slots" \in DOMAIN data THEN data.slots ELSE <<>>,
     slots_given |-> "slots" \in DOMAIN data]

\* BookingUpdateSerializer on a Booking instance: is_valid() runs validate(),
\* then save() enters update(), which is atomic.  With slots given, update()
\* deletes the booking's BookingSlot rows and walks the list; for the first
\* slot it runs the overlap query and then calls
\* calculate_booking_price(turf=, start_time=, end_time=, booking_date=), which
\* raises TypeError, the function having the one parameter `booking`; either
\* exception rolls the transaction back.  With an empty list the loop is
\* skipped and total_amount = 0 is saved.
BookingUpdateSerializer_save(p) ==
    \E b \in bookings, data \in UpdateInputs :
        LET r == UpdateRequest(b, data)
            date == r.booking_date
            kept == {x \in bookingSlots : x.booking # b.id}
            conflict(slot) ==
                \E x \in kept :
                    /\ x.turf = b.turf /\ x.booking_date = date
                    /\ x.start_time < ParseTime12(slot.to_time)
                    /\ x.end_time > ParseTime12(slot.from_time)
                    /\ x.status \in {PENDING, CONFIRMED}
            moved == [b EXCEPT !.booking_date = date]
        IN  /\ Arrive(p)
            /\ UNCHANGED nextId
            /\ IF b.status \in {COMPLETED, CANCELLED}
               THEN Return(p, r, Response(400, 0, "", 0,
                               "Completed or cancelled bookings cannot be modified"),
                           bookings, payments)
               ELSE IF b.booking_date < Today
               THEN Return(p, r, Response(400, 0, "", 0,
                               "Past bookings cannot be updated"),
                           bookings, payments)
               ELSE IF ~r.slots_given
               THEN Return(p, r, Response(200, b.id, "", 0, ""),
                           (bookings \ {b}) \cup {moved}, payments)
               ELSE IF r.slots_booked = <<>>
               THEN ReturnAll(p, r, Response(200, b.id, "", 0, ""),
                              (bookings \ {b}) \cup {[moved EXCEPT !.total_amount = 0]},
                              payments, kept)
               ELSE IF conflict(r.slots_booked[1])
               THEN Return(p, r, Response(400, 0, "", 0, "Slot already booked"),
                           bookings, payments)
               ELSE Return(p, r, Response(500, 0, "", 0, "TypeError"),
                           bookings, payments)

\* the data of a venue update
TurfPatches ==
    {[price |-> 300], [opening_time |-> Time(11, 0), closing_time |-> Time(22, 0)]}

\* PATCH of TurfUpdateView by the business owner of the turf: the fields of
\* the data are set on the Turf row; no Booking row is read or written
TurfUpdateView_patch(p) ==
    \E t \in TurfIds, data \in TurfPatches :
        /\ Arrive(p)
        /\ turfRows' = [turfRows EXCEPT ![t] = ApplyData(@, data)]
        /\ last' = [req |-> [NoReq EXCEPT !.op = "turf_update", !.turf = t],
                    resp |-> Response(200, 0, "", 0, "Turf updated successfully"),
                    pre |-> Tables(bookings, payments, bookingSlots),
                    post |-> Tables(bookings, payments, bookingSlots),
                    created |-> {}]
        /\ UNCHANGED <<bookings, payments, bookingSlots, nextId, pc, req, tx, pre,
                       slotVars, pureVars>>

\* one request at a time: the paths that create bookings, cancellation,
\* booking update and venue update
\* ------------------------------------------------- bookings CRUD: update
CrudUpdateInputs == {<<HOURLY, Time(10, 0), Time(12, 0)>>,
                     <<HOURLY, Time(11, 0), Time(13, 0)>>, <<FULL_DAY, NULL, NULL>>}

\* ModelSerializer.update: setattr(instance, attr, value) for every validated
\* field, then instance.save(); price and status are read-only
ModelSerializer_update(instance, data) ==
    [instance EXCEPT !.turf = data.turf, !.booking_type = data.booking_type,
                     !.booking_date = data.booking_date,
                     !.start_time = data.start_time, !.end_time = data.end_time]

\* PUT turfs/bookings/<id>/ with turf_id, booking_type, booking_date,
\* start_time and end_time (null for a full day): get_object loads the row
BookingViewSet_updateFrom(p, turfs, dates, inputs) ==
    \E id \in 1..nextId, t \in turfs, d \in dates, in \in inputs :
        LET found == {b \in bookings : b.id = id}
            r == [CreateRequest(t, d, in[1], in[2], in[3]) EXCEPT !.op = "crud_update",
                                                                  !.id = id]
        IN  /\ Arrive(p)
            /\ UNCHANGED nextId
            /\ IF found = {}
               THEN Return(p, r, Response(404, 0, "", 0, "Not found"), bookings, payments)
               ELSE /\ \E b \in found :
                          Goto(p, "crud_update_save", r, [NoTx EXCEPT !.instance = b])
                    /\ UNCHANGED <<bookings, payments, bookingSlots>>

BookingViewSet_update(p) ==
    BookingViewSet_updateFrom(p, TurfIds, Dates, CrudUpdateInputs)

\* BookingSerializer.validate, then the update BookingSerializer inherits:
\* instance.save() writes every column of the row as it was loaded, with the
\* validated fields set
CrudUpdate_Save(p) ==
    /\ pc[p] = "crud_update_save"
    /\ tx[p].instance.id \notin LockedByOther(p)
    /\ UNCHANGED <<nextId, nreq>>
    /\ LET err == BookingSerializer_validate(req[p])
       IN  IF err # ""
           THEN Return(p, req[p], Response(400, 0, "", 0, err), bookings, payments)
           ELSE Return(p, req[p], Response(200, req[p].id, "", 0, ""),
                       {b \in bookings : b.id # tx[p].instance.id}
                           \cup {ModelSerializer_update(tx[p].instance, req[p])},
                       payments)

NextAmounts ==
    \E p \in Procs :
        \/ Quiescent /\ BookingViewSet_create(p)
        \/ Quiescent /\ BookingPayView_post(p)
        \/ Quiescent /\ BookingCreateSerializer_save(p)
        \/ Quiescent /\ BookingViewSet_destroy(p)
        \/ Quiescent /\ BookingUpdateSerializer_save(p)
        \/ Quiescent /\ BookingViewSet_update(p)
        \/ Quiescent /\ TurfUpdateView_patch(p)
        \/ Step(p)
        \/ SlotFlowStep(p)
        \/ CrudUpdate_Save(p)

SpecAmounts == Init /\ [][NextAmounts]_vars

\* the amounts of a Booking row
Amounts(b) == <<b.base_amount, b.platform_fee, b.total_amount>>

GridLabels(t) ==
    LET hours == generate_hour_slots(Turf(t).opening_time, Turf(t).closing_time)
    IN  {Format12(hours[k]) : k \in DOMAIN hours}

\* C30: the availability read reports a grid interval as booked if and only if
\* a CONFIRMED FULL_DAY booking exists for the (venue, date) or the interval
\* overlaps a CONFIRMED HOURLY booking of it, also when the booking's
\* start_time is not on a grid boundary; and every booked slot it reports is
\* an interval of the grid.
C30_BookedIffOverlap ==
    (lastRead.op = "availability" /\ lastRead.status = 200) =>
        LET t == lastRead.turf
            d == lastRead.date
            hours == generate_hour_slots(Turf(t).opening_time, Turf(t).closing_time)
            reported == Range(lastRead.booked_slots)
        IN  /\ \A k \in DOMAIN hours :
                  Format12(hours[k]) \in reported
                      <=> ~NotCovered(lastRead.pre, t, d, hours[k], hours[k] + Hour)
            /\ reported \subseteq GridLabels(t)

\* ---------------------------------------------------------------------------
\* Concurrent requests over two venues and two dates: which request waits for
\* which
\* ---------------------------------------------------------------------------

LockTurfs == {1, 2}
LockDates == {Today, Today + 1}
LockCreates == {<<HOURLY, Time(10, 0), Time(12, 0)>>, <<FULL_DAY, NULL, NULL>>}
LockSlotPayloads == {<<SlotA>>}
LockPaySlots == {<<Time(10, 0), 2>>}
LockSlotIntervals == {<<Time(10, 0), Time(12, 0)>>}
LockSlotStatuses == {"AVAILABLE", "BOOKED"}
LockPatchPayloads ==
    {<<SlotItem(<<Time(10, 0), Time(12, 0)>>, "AVAILABLE")>>,
     <<SlotItem(<<Time(10, 0), Time(12, 0)>>, "AVAILABLE"),
       SlotItem(<<Time(11, 0), Time(13, 0)>>, "AVAILABLE")>>}
LockPatchData == {[price |-> 150]}

\* Slot ids locked by select_for_update in the open transactions of the others
SlotRowsLockedByOther(p) == UNION {tx[q].row_locks : q \in Procs \ {p}}

\* the Slot table as the transaction of p sees it: its own saves over the
\* committed rows
SlotRowsSeen(p) ==
    {x \in slotRows : x.id \notin {y.id : y \in tx[p].rows}} \cup tx[p].rows

\* the end of a slot request that ran in steps: commit (rows) or rollback
\* (slotRows), the response, the transaction closed
SlotTxReturn(p, st, rows) ==
    /\ slotRows' = rows
    /\ \E user \in Users :
          lastSlot' = [op |-> req[p].op, req |-> req[p], status |-> st,
                       pre |-> slotRows, post |-> rows, user |-> user]
    /\ pc' = [pc EXCEPT ![p] = "idle"]
    /\ req' = [req EXCEPT ![p] = NoReq]
    /\ tx' = [tx EXCEPT ![p] = NoTx]
    /\ pre' = [pre EXCEPT ![p] = NoPre]
    /\ UNCHANGED <<bookings, payments, bookingSlots, nextId, nreq, nextSlotId, last,
                   lastRead, calc, turfRows>>

\* PATCH slots/bulk-update/: the serializer, then the loop enters its first
\* range
BulkSlotUpdateView_patchFrom(p, turfs, dates, payloads, datas) ==
    \E t \in turfs, d \in dates, payload \in payloads, data \in datas :
        LET r == [slots |-> payload, data |-> data]
                    @@ [NoReq EXCEPT !.op = "bulk_update", !.turf = t,
                                     !.booking_date = d]
        IN  /\ Arrive(p)
            /\ IF ~validate_patch_slots(payload) \/ ~validate_data(data)
               THEN Goto(p, "bulk_patch_reject", r, tx[p])
               ELSE Goto(p, "bulk_patch_lock", r, [tx[p] EXCEPT !.i = 1])
            /\ UNCHANGED <<bookings, payments, bookingSlots, nextId>>

\* one turn of the loop: select_for_update().filter(turf, date, start, end)
\* .first() waits while another transaction holds the row, then locks it; the
\* slot is saved with the data
BulkPatch_Lock(p) ==
    /\ pc[p] = "bulk_patch_lock"
    /\ LET rng == req[p].slots[tx[p].i]
           at == SlotAt(SlotRowsSeen(p), req[p].turf, req[p].booking_date,
                        ParseTime12(rng.from), ParseTime12(rng.to))
       IN  IF at = {}
           THEN Goto(p, "bulk_patch_reject", req[p], tx[p])
           ELSE \E slot \in at :
                   /\ slot.id \notin SlotRowsLockedByOther(p)
                   /\ LET locked == [tx[p] EXCEPT !.row_locks = @ \cup {slot.id}]
                      IN  IF slot.status = "BOOKED"
                          THEN Goto(p, "bulk_patch_reject", req[p], locked)
                          ELSE Goto(p,
                                    IF tx[p].i = Len(req[p].slots)
                                    THEN "bulk_patch_commit" ELSE "bulk_patch_lock",
                                    req[p],
                                    [locked EXCEPT
                                        !.rows = {y \in @ : y.id # slot.id}
                                                    \cup {ApplyData(slot, req[p].data)},
                                        !.i = @ + 1])
    /\ UNCHANGED <<bookings, payments, bookingSlots, nextId, nreq>>

\* ValidationError: 400, the atomic block rolls back
BulkPatch_Reject(p) ==
    /\ pc[p] = "bulk_patch_reject"
    /\ SlotTxReturn(p, 400, slotRows)

\* the response: the saves of the loop commit
BulkPatch_Commit(p) ==
    /\ pc[p] = "bulk_patch_commit"
    /\ SlotTxReturn(p, 200, SlotRowsSeen(p))

\* the steps of a bulk patch
BulkPatchStep(p) ==
    \/ BulkPatch_Lock(p)
    \/ BulkPatch_Reject(p)
    \/ BulkPatch_Commit(p)

\* the steps of the CRUD create and of pay-and-confirm
LockStep(p) ==
    \/ Create_FullDayCheck(p)
    \/ Create_HourlyFullDayCheck(p)
    \/ Create_HourlyOverlapCheck(p)
    \/ Create_Reject(p)
    \/ Create_Save(p)
    \/ Pay_ConflictCheck(p)
    \/ Pay_Conflict(p)
    \/ Pay_CreateBooking(p)
    \/ Pay_Lookup(p)
    \/ Pay_InsertPayment(p)
    \/ Pay_Commit(p)

NextLocks ==
    \E p \in Procs :
        \/ BookingViewSet_createFrom(p, LockTurfs, LockDates, LockCreates)
        \/ BookingPayView_postFrom(p, LockTurfs, LockDates, LockPaySlots, Refs)
        \/ BookingCreateSerializer_saveFrom(p, LockTurfs, LockDates, LockSlotPayloads)
        \/ SlotCreateView_postFrom(p, LockTurfs, LockDates, LockSlotIntervals,
                                   LockSlotStatuses)
        \/ BulkSlotUpdateView_patchFrom(p, LockTurfs, LockDates, LockPatchPayloads,
                                        LockPatchData)
        \/ LockStep(p)
        \/ SlotFlowStep(p)
        \/ BulkPatchStep(p)

\* concurrent allocation requests and bulk patches over two venues and two
\* dates
SpecLocks == Init /\ [][NextLocks]_vars

\* the (venue, date) of the request p is serving
DayOf(p) == <<req[p].turf, req[p].booking_date>>

\* the Booking rows the select_for_update of p's current step asks for
BookingRowsAsked(p) ==
    CASE pc[p] = "create_full_day" ->
            ConfirmedOn(bookings, req[p].turf, req[p].booking_date)
      [] pc[p] = "create_hourly_fd" ->
            FullDayOf(ConfirmedOn(bookings, req[p].turf, req[p].booking_date))
      [] pc[p] = "create_hourly_overlap" ->
            HourlyOverlap(ConfirmedOn(bookings, req[p].turf, req[p].booking_date),
                          req[p].start_time, req[p].end_time)
      [] pc[p] = "pay_check" -> PayConflicts(bookings, req[p])
      [] OTHER -> {}

\* p waits for a row lock that q holds
WaitsForRowLock(p, q) ==
    \/ BookingRowsAsked(p) # {} /\ {b.id : b \in BookingRowsAsked(p)} \subseteq tx[q].locks
    \/ /\ pc[p] = "slotflow_check"
       /\ LET slot == req[p].slots_booked[tx[p].i]
              committed == SameSlotRows(bookingSlots, req[p], slot)
          IN  /\ SameSlotRows(tx[p].slots, req[p], slot) = {}
              /\ committed # {}
              /\ committed \subseteq tx[q].slot_locks
    \/ /\ pc[p] = "bulk_patch_lock"
       /\ LET rng == req[p].slots[tx[p].i]
              at == SlotAt(SlotRowsSeen(p), req[p].turf, req[p].booking_date,
                           ParseTime12(rng.from), ParseTime12(rng.to))
          IN  at # {} /\ {x.id : x \in at} \subseteq tx[q].row_locks

\* p waits at the unique index of Payment.transaction_ref for the uncommitted
\* payment of q
WaitsForPayment(p, q) ==
    /\ pc[p] = "pay_insert"
    /\ tx[q].payment.transaction_ref = req[p].transaction_ref

\* the original statement: whatever makes one request wait for another, the
\* two are for the same (venue, date)
C31_NeverBlockedAcrossDays ==
    \A p \in Procs : \A q \in Procs \ {p} :
        WaitsForRowLock(p, q) \/ WaitsForPayment(p, q) => DayOf(p) = DayOf(q)

\* C31: a request that waits for a row lock held by a concurrent request is
\* for the same (venue, date) as that request; across (venue, date) pairs a
\* request waits only at the unique index of Payment.transaction_ref, for a
\* payment that carries its own transaction_ref
C31_RowLocksWithinOneDay ==
    \A p \in Procs : \A q \in Procs \ {p} :
        /\ WaitsForRowLock(p, q) => DayOf(p) = DayOf(q)
        /\ WaitsForPayment(p, q) => req[q].transaction_ref = req[p].transaction_ref

\* a bulk patch waits for the Slot row another bulk patch has locked
C31_Witness ==
    \E p \in Procs : \E q \in Procs \ {p} :
        /\ pc[p] = "bulk_patch_lock"
        /\ WaitsForRowLock(p, q)
        /\ DayOf(p) = DayOf(q)

\* ---------------------------------------------------------------------------
\* Who may change a venue's slots
\* ---------------------------------------------------------------------------

SlotMutations ==
    {"slot_create", "slot_update", "slot_delete", "bulk_save", "bulk_update",
     "smart_save"}

\* the venue whose slots the last slot request addressed: the turf_id of the
\* payload, or the venue of the slot named in the URL (0 when there is none)
SlotRequestTurf ==
    IF "turf" \in DOMAIN lastSlot.req THEN lastSlot.req.turf
    ELSE LET found == {x \in lastSlot.pre : x.id = lastSlot.req.id}
         IN  IF found = {} THEN 0 ELSE (CHOOSE x \in found : TRUE).turf

\* C32: a slot-management mutation by an authenticated user who is not the
\* owner of the venue is answered 403 and changes no Slot row
C32_OwnerOnly ==
    ( /\ lastSlot.op \in SlotMutations
      /\ SlotRequestTurf \in TurfIds
      /\ lastSlot.user # Turf(SlotRequestTurf).owner )
        => lastSlot.status = 403 /\ lastSlot.post = lastSlot.pre

UpdatedBefore == {b \in last.pre.bookings : b.id = last.req.id /\ b.status = CONFIRMED}

\* the other CONFIRMED bookings of the target (venue, date) the updated
\* booking would collide with under the rules of creation
UpdateCollisions ==
    LET others == {b \in ConfirmedOn(last.pre.bookings, last.req.turf,
                                     last.req.booking_date) : b.id # last.req.id}
    IN  IF last.req.booking_type = FULL_DAY THEN others
        ELSE FullDayOf(others)
                \cup HourlyOverlap(HourlyOf(others), last.req.start_time,
                                   last.req.end_time)

\* C34: an update of a CONFIRMED booking through the CRUD endpoint that
\* collides with another CONFIRMED booking of the target (venue, date) is
\* rejected and changes nothing
C34_UpdateChecksConflicts ==
    ( /\ last.req.op = "crud_update"
      /\ UpdatedBefore # {}
      /\ UpdateCollisions # {} )
        => /\ last.resp.status \in {400, 409}
           /\ last.post = last.pre

\* ---------------------------------------------------------------------------
\* Cancelled bookings under concurrent requests
\* ---------------------------------------------------------------------------

CancelTurfs == {1}
CancelDates == {Today}
CancelCreates == {<<HOURLY, Time(10, 0), Time(12, 0)>>, <<FULL_DAY, NULL, NULL>>}
CancelUpdates == {<<HOURLY, Time(11, 0), Time(13, 0)>>, <<FULL_DAY, NULL, NULL>>}

NextCancel ==
    \E p \in Procs :
        \/ BookingViewSet_createFrom(p, CancelTurfs, CancelDates, CancelCreates)
        \/ BookingPayView_postFrom(p, CancelTurfs, CancelDates, LockPaySlots, Refs)
        \/ BookingViewSet_destroy(p)
        \/ BookingViewSet_updateFrom(p, CancelTurfs, CancelDates, CancelUpdates)
        \/ BookingUpdateSerializer_save(p)
        \/ Step(p)
        \/ CrudUpdate_Save(p)

\* concurrent creations, payments, cancellations and updates of one venue's
\* bookings
SpecCancel == Init /\ [][NextCancel]_vars

\* a CANCELLED booking is CANCELLED after the step
StaysCancelled ==
    \A b \in bookings :
        b.status = CANCELLED =>
            \E c \in bookings' : c.id = b.id /\ c.status = CANCELLED

\* the last request was a cancel of a booking that was CANCELLED already
RepeatedCancel ==
    /\ last.req.op = "destroy"
    /\ \E b \in last.pre.bookings : b.id = last.req.id /\ b.status = CANCELLED

\* C35: no step takes a CANCELLED booking to another status, and a cancel of a
\* CANCELLED booking changes nothing
C35_CancelledIsTerminal ==
    /\ [][StaysCancelled]_vars
    /\ [](RepeatedCancel => last.post = last.pre)

\* C36: the price computation of an HOURLY booking with start_time < end_time
\* returns a price; it never raises on an hour past 23
C36_PriceLoopTerminates ==
    ( /\ calc.fn = "price"
      /\ calc.args.booking_type = HOURLY
      /\ calc.args.start_time < calc.args.end_time )
        => \A i \in DOMAIN calc.prices : calc.prices[i] # Raised

\* ---------------------------------------------------------------------------
\* The availability read against the conflict checks of the write paths
\* ---------------------------------------------------------------------------

\* the read lists the grid hour h of (t, d) as booked
ReadListsBooked(t, d, h) ==
    Format12(h) \in Range(TurfAvailability(bookings, t, d).booked_slots)

\* BookingValidationSerializer.validate and BookingSerializer.create: a
\* CONFIRMED FULL_DAY booking of the day, or a CONFIRMED HOURLY booking that
\* overlaps [h, h + 1 hour)
CheckedConflict(t, d, h) ==
    \/ FullDayOf(ConfirmedOn(bookings, t, d)) # {}
    \/ HourlyOverlap(ConfirmedOn(bookings, t, d), h, h + Hour) # {}

\* BookingPayView.post: the conflicts query of a request for [h, h + 1 hour)
PayConflict(t, d, h) == PayConflicts(bookings, PayRequest(t, d, h, 1, "r1")) # {}

\* BookingConfirmView.post: the request fails on validated_data["start_time"]
\* before its checks, so it is never answered with a conflict
ConfirmConflict(t, d, h) ==
    /\ {"start_time", "duration_hours"} \cap BookingConfirmSerializer_fields # {}
    /\ CheckedConflict(t, d, h)

\* C37: with no request in flight, the read lists a grid hour as booked
\* exactly when each allocation path would answer a request for that hour
\* with a conflict
C37_ReadAgreesWithWrites ==
    Quiescent =>
        \A t \in TurfIds, d \in {Today, Today + 1} :
            \A h \in Range(generate_hour_slots(Turf(t).opening_time,
                                               Turf(t).closing_time)) :
                /\ ReadListsBooked(t, d, h) <=> CheckedConflict(t, d, h)
                /\ ReadListsBooked(t, d, h) <=> PayConflict(t, d, h)
                /\ ReadListsBooked(t, d, h) <=> ConfirmConflict(t, d, h)

\* ---------------------------------------------------------------------------
\* The bulk save of a day's slots, over two dates
\* ---------------------------------------------------------------------------

BulkTurfs == {1}
BulkDates == {Today, Today + 1}
BulkCreateIntervals == {<<Time(10, 0), Time(11, 0)>>}
BulkCreateStatuses == {"AVAILABLE", "BOOKED"}
\* the bulk payloads, and one that writes a BOOKED slot apart from the others
BulkSavePayloads ==
    BulkPayloads \cup {<<SlotItem(<<Time(14, 0), Time(15, 0)>>, "BOOKED"),
                          SlotItem(<<Time(16, 0), Time(17, 0)>>, "AVAILABLE")>>}

NextBulk ==
    \E p \in Procs :
        \/ SlotCreateView_postFrom(p, BulkTurfs, BulkDates, BulkCreateIntervals,
                                   BulkCreateStatuses)
        \/ BulkSlotSaveView_postFrom(p, BulkTurfs, BulkDates, BulkSavePayloads)

SpecBulk == Init /\ [][NextBulk]_vars

\* the Slot rows of the (venue, date) of the last slot request
OfRequestDay(rows) ==
    {x \in rows : x.turf = lastSlot.req.turf /\ x.date = lastSlot.req.date}

\* what a bulk save writes of a row, and what the request says of its slots
SlotContent(x) == <<x.start_time, x.end_time, x.status, x.price, x.label>>
RequestContent ==
    {<<ParseTime12(s.from), ParseTime12(s.to), s.status, s.price, s.label>> :
        s \in Range(lastSlot.req.slots)}

\* BOOKED rows stay as they were, rows of other venues and dates too; a
\* request that fails changes nothing
BulkSaveFrame ==
    IF lastSlot.status = 200
    THEN /\ \A x \in OfRequestDay(lastSlot.pre) : x.status = "BOOKED" => x \in lastSlot.post
         /\ lastSlot.post \ OfRequestDay(lastSlot.post)
                = lastSlot.pre \ OfRequestDay(lastSlot.pre)
    ELSE lastSlot.post = lastSlot.pre

SlotC == [from_time |-> <<11, 0, "AM">>, to_time |-> <<1, 0, "PM">>, price |-> 200]
FlowTurfs == {1}
FlowDates == {Today}
FlowPayloads == {<<SlotA>>, <<SlotB>>, <<SlotC>>, <<SlotA, SlotC>>}

NextSlotFlow ==
    \E p \in Procs :
        \/ Quiescent /\ BookingCreateSerializer_saveFrom(p, FlowTurfs, FlowDates,
                                                         FlowPayloads)
        \/ Quiescent /\ BookingUpdateSerializer_save(p)
        \/ SlotFlowStep(p)

\* slot-based creations and booking updates, one request at a time
SpecSlotFlow == Init /\ [][NextSlotFlow]_vars

\* the BookingSlot rows whose booking is PENDING or CONFIRMED
LiveSlotRows ==
    {x \in bookingSlots :
        \E b \in bookings : b.id = x.booking /\ b.status \in {PENDING, CONFIRMED}}

====
